---- MODULE Spec2Model ----
(***************************************************************************)
(* Git repository and worktree orchestration layer of openchamber          *)
(* (packages/vscode/src/gitService.ts): the worktree lifecycle manager     *)
(* (validateWorktreeCreate, createWorktree, removeWorktree), the project   *)
(* metadata store and the merge/rebase conflict controller, driven against *)
(* a model of the git binary they invoke.                                  *)
(***************************************************************************)
EXTENDS Integers, Sequences, FiniteSets, TLC

(***************************************************************************)
(* Strings.  TLC strings carry Len, SubSeq and \o; the operators below are *)
(* the JavaScript String methods the service uses, with 0-based indices as *)
(* in the source.                                                          *)
(***************************************************************************)
Null == [null |-> TRUE]

WhiteSpace == {" ", "\t", "\n", "\r"}

CharAt(s, i) == SubSeq(s, i + 1, i + 1)

StartsWith(s, p) == Len(s) >= Len(p) /\ SubSeq(s, 1, Len(p)) = p

Substring(s, from) == SubSeq(s, from + 1, Len(s))

Slice(s, from, to) == SubSeq(s, from + 1, IF to < Len(s) THEN to ELSE Len(s))

IndexOf(s, c) ==
    IF \E i \in 0..(Len(s) - 1) : CharAt(s, i) = c
    THEN CHOOSE i \in 0..(Len(s) - 1) :
            /\ CharAt(s, i) = c
            /\ \A j \in 0..(i - 1) : CharAt(s, j) # c
    ELSE -1

Includes(s, sub) ==
    \E i \in 0..(Len(s) - Len(sub)) : SubSeq(s, i + 1, i + Len(sub)) = sub

RECURSIVE TrimStart(_)
TrimStart(s) ==
    IF Len(s) > 0 /\ CharAt(s, 0) \in WhiteSpace THEN TrimStart(Substring(s, 1)) ELSE s

RECURSIVE TrimEnd(_)
TrimEnd(s) ==
    IF Len(s) > 0 /\ CharAt(s, Len(s) - 1) \in WhiteSpace
    THEN TrimEnd(Slice(s, 0, Len(s) - 1))
    ELSE s

Trim(s) == TrimEnd(TrimStart(s))

\* s with every leading character that lies in set removed: replace(/^X+/, '')
RECURSIVE StripLeading(_, _)
StripLeading(s, set) ==
    IF Len(s) > 0 /\ CharAt(s, 0) \in set THEN StripLeading(Substring(s, 1), set) ELSE s

\* replace(/X+$/, '')
RECURSIVE StripTrailing(_, _)
StripTrailing(s, set) ==
    IF Len(s) > 0 /\ CharAt(s, Len(s) - 1) \in set
    THEN StripTrailing(Slice(s, 0, Len(s) - 1), set)
    ELSE s

\* pieces[lo] \o ... \o pieces[hi]: Array.prototype.join('')
RECURSIVE Join(_, _, _)
Join(pieces, lo, hi) ==
    IF lo > hi THEN ""
    ELSE IF lo = hi THEN pieces[lo]
    ELSE Join(pieces, lo, (lo + hi) \div 2) \o Join(pieces, (lo + hi) \div 2 + 1, hi)

\* replace(/X+/g, rep), X the characters of set (inSet) or all the others: every run of
\* such characters becomes one rep, written where the run ends
ReplaceRuns(s, set, inSet, rep) ==
    LET hit(i) == (CharAt(s, i) \in set) = inSet
        piece(i) == IF ~hit(i) THEN CharAt(s, i)
                    ELSE IF i + 1 < Len(s) /\ hit(i + 1) THEN ""
                    ELSE rep
    IN  Join([i \in 1..Len(s) |-> piece(i - 1)], 1, Len(s))

StripPrefix(s, p) == IF StartsWith(s, p) THEN Substring(s, Len(p)) ELSE s

SlugChars ==
    { "a", "b", "c", "d", "e", "f", "g", "h", "i", "j", "k", "l", "m",
      "n", "o", "p", "q", "r", "s", "t", "u", "v", "w", "x", "y", "z",
      "A", "B", "C", "D", "E", "F", "G", "H", "I", "J", "K", "L", "M",
      "N", "O", "P", "Q", "R", "S", "T", "U", "V", "W", "X", "Y", "Z",
      "0", "1", "2", "3", "4", "5", "6", "7", "8", "9", ".", "_", "-" }

SlugMaxLen == 80

(***************************************************************************)
(* Pure helpers of the service.                                            *)
(***************************************************************************)
\* os.homedir()
HomePath == "/home/dev"

normalizeDirectoryPath(value) ==
    LET trimmed == Trim(value)
    IN  IF trimmed = "" THEN trimmed
        ELSE IF trimmed = "~" THEN HomePath
        ELSE IF StartsWith(trimmed, "~/") \/ StartsWith(trimmed, "~\\")
        THEN HomePath \o "/" \o Substring(trimmed, 2)
        ELSE trimmed

cleanBranchName(branch) ==
    IF branch = "" THEN branch
    ELSE IF StartsWith(branch, "refs/heads/") THEN Substring(branch, Len("refs/heads/"))
    ELSE IF StartsWith(branch, "heads/") THEN Substring(branch, Len("heads/"))
    ELSE IF StartsWith(branch, "refs/") THEN Substring(branch, Len("refs/"))
    ELSE branch

slugWorktreeName(value) ==
    LET s1 == Trim(value)
        s2 == StripPrefix(s1, "refs/heads/")
        s3 == StripPrefix(s2, "heads/")
        s4 == ReplaceRuns(s3, WhiteSpace, TRUE, "-")
        s5 == StripTrailing(StripLeading(s4, {"/"}), {"/"})
        s6 == ReplaceRuns(s5, {"/"}, TRUE, "-")
        s7 == ReplaceRuns(s6, SlugChars, FALSE, "-")
        s8 == ReplaceRuns(s7, {"-"}, TRUE, "-")
        s9 == StripLeading(s8, {"-"})
        s10 == StripTrailing(s9, {"-"})
    IN  Slice(s10, 0, SlugMaxLen)

normalizeStartRef(value) ==
    LET trimmed == Trim(value) IN IF trimmed = "" THEN "HEAD" ELSE trimmed

\* parseRemoteBranchRef that takes the text after the last '/' as the branch
RECURSIVE LastIndexOf(_, _)
LastIndexOf(s, c) ==
    IF s = "" THEN -1
    ELSE IF CharAt(s, Len(s) - 1) = c THEN Len(s) - 1
    ELSE LastIndexOf(Slice(s, 0, Len(s) - 1), c)

parseAtLastSlash(value) ==
    IF LastIndexOf(Trim(value), "/") <= 0 \/ LastIndexOf(Trim(value), "/") = Len(Trim(value)) - 1
    THEN Null
    ELSE [ remote    |-> Slice(Trim(value), 0, LastIndexOf(Trim(value), "/")),
           branch    |-> Substring(Trim(value), LastIndexOf(Trim(value), "/") + 1),
           remoteRef |-> Trim(value),
           fullRef   |-> "refs/remotes/" \o Trim(value) ]

RECURSIVE parseRemoteBranchRef(_)
parseRemoteBranchRef(value) ==
    LET trimmed == Trim(value)
        split(text) ==
            LET slashIndex == IndexOf(text, "/")
            IN  IF slashIndex <= 0 \/ slashIndex = Len(text) - 1
                THEN Null
                ELSE [ remote    |-> Slice(text, 0, slashIndex),
                       branch    |-> Substring(text, slashIndex + 1),
                       remoteRef |-> text,
                       fullRef   |-> "refs/remotes/" \o text ]
    IN  IF trimmed = "" THEN Null
        ELSE IF StartsWith(trimmed, "refs/remotes/")
             THEN split(Substring(trimmed, Len("refs/remotes/")))
        ELSE IF StartsWith(trimmed, "remotes/")
             THEN parseRemoteBranchRef("refs/" \o trimmed)
        ELSE split(trimmed)

normalizeUpstreamTarget(remote, branch) ==
    LET remoteName == Trim(remote)
        branchName == Trim(branch)
    IN  IF remoteName = "" \/ branchName = ""
        THEN Null
        ELSE [ remote |-> remoteName,
               branch |-> branchName,
               full   |-> remoteName \o "/" \o branchName ]

(***************************************************************************)
(* The world the service acts on: the repository as the git binary sees    *)
(* it, the directories on disk and the project record of the metadata      *)
(* store.                                                                  *)
(***************************************************************************)
VARIABLES
    marker,        \* content of <primary>/.git/opencode, "" while the file is absent
    roots,         \* root commits of the commit graph
    heads,         \* local branches (refs/heads/<name>)
    remoteRefs,    \* remote-tracking refs (refs/remotes/<remote>/<branch>), as "<remote>/<branch>"
    remotes,       \* configured remotes: name -> url
    worktrees,     \* what `worktree list --porcelain` reports, the primary worktree first
    dirs,          \* directories that exist on disk
    project,       \* the project record of the metadata store, Null while not written
    branchConfig,  \* branch.<name>.remote / branch.<name>.merge
    gitConfig,     \* user.name, user.email and core.sshCommand of the repository
    repository,    \* HEAD, the branches and the tracked file of the primary worktree
    gitApi,        \* the API of the vscode.git extension this module holds, None while it holds none
    gitExtensionEnabled, \* whether the module takes the extension to be enabled
    vscodeGit,     \* the vscode.git extension: found, enabled, and whether it reports changes here
    calls,         \* the createWorktree calls in flight, each with the point it has reached
    timers,        \* the start-script tasks scheduled and not yet finished
    result         \* outcome of the caller-facing call that completed last, Null once consumed

\* A value that may be missing (null, or a key that is not set): None, or Some(v)
None == << >>

Some(v) == << v >>

\* A repository whose identity was never configured
NoIdentity == [userName |-> None, userEmail |-> None, sshCommand |-> None]

\* The primary worktree of a new clone: `main` checked out at the first commit, tracking
\* origin/main, one tracked file a.txt and nothing changed.  head is the branch HEAD
\* names, "" when HEAD is detached, and at its commit; history gives the content of a.txt
\* in each commit and the parent of the commit, file the content in HEAD, in the index and in the working tree
\* ("" when it is not there); untracked tells whether the untracked file new.txt exists.
FirstCommit == "a1f4c09"

FirstContent == "v1"

FreshRepository ==
    [ head |-> "main", at |-> FirstCommit,
      branches |-> [b \in {"main"} |-> FirstCommit],
      remoteBranches |-> [r \in {"origin/main"} |-> FirstCommit],
      tracking |-> [b \in {"main"} |-> "origin/main"],
      history |-> [c \in {FirstCommit} |-> [content |-> FirstContent, parent |-> ""]],
      file |-> [head |-> FirstContent, index |-> FirstContent, work |-> FirstContent],
      untracked |-> FALSE ]

worktreeVars ==
    << marker, roots, heads, remoteRefs, remotes, worktrees, dirs, project, branchConfig >>

extensionVars == << gitApi, gitExtensionEnabled, vscodeGit >>

\* The module before its first call, in a window where vscode.git is installed and enabled
NoGitApi == None

EnabledExtension == [found |-> TRUE, enabled |-> TRUE, listening |-> FALSE]

\* How many createWorktree calls may be in flight together.
MaxCalls == 2

\* No call in flight
NoCalls == [p \in 1..MaxCalls |-> Null]

vars == << marker, roots, heads, remoteRefs, remotes, worktrees, dirs, project,
           branchConfig, gitConfig, repository, gitApi, gitExtensionEnabled, vscodeGit,
           calls, timers, result >>

\* The world as one value; log collects the commands one call issues, in order,
\* storeOk tells whether the metadata store can be written during the call, markerOk
\* whether the project-ID marker file can, resetOk whether `reset --hard` succeeds in a
\* new worktree, rmOk whether a directory can be deleted, branchOk whether `branch -D`
\* can delete a branch, now is what Date.now() gives during the call and queued collects
\* the start-script tasks the call schedules.
World ==
    [ marker |-> marker, roots |-> roots, heads |-> heads, remoteRefs |-> remoteRefs,
      remotes |-> remotes, worktrees |-> worktrees, dirs |-> dirs, project |-> project,
      branchConfig |-> branchConfig, log |-> << >>, storeOk |-> TRUE, markerOk |-> TRUE,
      resetOk |-> TRUE, rmOk |-> TRUE, branchOk |-> TRUE, now |-> 1, queued |-> {} ]

\* The repository, the disk and the store become those of W.
InstallRepo(W) ==
    /\ marker' = W.marker
    /\ roots' = W.roots
    /\ heads' = W.heads
    /\ remoteRefs' = W.remoteRefs
    /\ remotes' = W.remotes
    /\ worktrees' = W.worktrees
    /\ dirs' = W.dirs
    /\ project' = W.project
    /\ branchConfig' = W.branchConfig

Install(W) ==
    /\ InstallRepo(W)
    /\ timers' = timers \cup W.queued
    /\ UNCHANGED << gitConfig, repository, extensionVars >>

Logged(W, cmd) == [W EXCEPT !.log = Append(@, cmd)]

\* Two worlds that differ at most in the commands logged.
SameWorld(A, B) ==
    [A EXCEPT !.log = << >>, !.storeOk = TRUE, !.markerOk = TRUE, !.resetOk = TRUE,
              !.rmOk = TRUE, !.branchOk = TRUE, !.now = 1, !.queued = {}]
        = [B EXCEPT !.log = << >>, !.storeOk = TRUE, !.markerOk = TRUE, !.resetOk = TRUE,
                    !.rmOk = TRUE, !.branchOk = TRUE, !.now = 1, !.queued = {}]

(***************************************************************************)
(* Paths and the file system.                                              *)
(***************************************************************************)
PrimaryPath == "/repo"

\* A symbolic link to the primary worktree.
LinkPath == "/link"

\* getOpenCodeDataPath()
OpenCodeDataPath == "/data/opencode"

pathJoin(a, b) == a \o "/" \o b

\* path.resolve / path.normalize of an absolute path: no trailing separator
pathResolve(p) == IF Len(p) > 1 THEN StripTrailing(p, {"/"}) ELSE p

\* fs.promises.realpath of an existing path
RealPath(p) == IF p = LinkPath THEN PrimaryPath ELSE p

checkPathExists(W, targetPath) == RealPath(pathResolve(targetPath)) \in W.dirs

\* canonicalPath without the resolution of symbolic links
lexicalPath(W, input) == pathResolve(input)

canonicalPath(W, input) ==
    LET absolutePath == pathResolve(input)
        realPath == IF checkPathExists(W, absolutePath) THEN RealPath(absolutePath) ELSE absolutePath
    IN  pathResolve(realPath)

(***************************************************************************)
(* The git binary, as far as the service drives it.  Each command is a     *)
(* function of the world: whether it exits 0, what it prints, the world it *)
(* leaves.                                                                 *)
(***************************************************************************)
\* The remote servers: the url that answers, and the branches it holds.
ServerUrl == "u1"

ServerHeads == {"feat"}

\* The url a remote argument (a configured name, or a url) resolves to, "" if none.
RemoteUrl(W, target) ==
    IF target \in DOMAIN W.remotes THEN W.remotes[target]
    ELSE IF target = ServerUrl THEN target
    ELSE ""

\* A show-ref that would find no ref at all.
GitShowRefBlind(W, ref) == FALSE

\* git show-ref --verify --quiet <ref>
GitShowRef(W, ref) ==
    \/ StartsWith(ref, "refs/heads/") /\ Substring(ref, Len("refs/heads/")) \in W.heads
    \/ StartsWith(ref, "refs/remotes/") /\ Substring(ref, Len("refs/remotes/")) \in W.remoteRefs

\* git rev-parse --verify --quiet <rev>
GitRevParseVerify(W, rev) ==
    \/ rev = "HEAD" /\ W.roots # {}
    \/ rev \in W.heads
    \/ rev \in W.remoteRefs
    \/ GitShowRef(W, rev)

\* git ls-remote --heads <target> refs/heads/<branch>
GitLsRemote(W, target, branch) ==
    [ success |-> RemoteUrl(W, target) = ServerUrl,
      stdout  |-> IF RemoteUrl(W, target) = ServerUrl /\ branch \in ServerHeads
                  THEN "0000 refs/heads/" \o branch ELSE "" ]

\* git fetch <remote> +refs/heads/<branch>:refs/remotes/<remote>/<branch>
GitFetch(W, remote, branch) ==
    LET ok == remote \in DOMAIN W.remotes /\ W.remotes[remote] = ServerUrl /\ branch \in ServerHeads
        L == Logged(W, << "fetch", remote, branch >>)
    IN  [ success |-> ok,
          message |-> IF ok THEN "" ELSE "fatal: couldn't find remote ref refs/heads/" \o branch,
          w |-> IF ok THEN [L EXCEPT !.remoteRefs = @ \cup {remote \o "/" \o branch}] ELSE L ]

\* git remote get-url <name>
GitRemoteGetUrl(W, name) ==
    [ success |-> name \in DOMAIN W.remotes,
      stdout  |-> IF name \in DOMAIN W.remotes THEN W.remotes[name] ELSE "" ]

\* git remote add <name> <url>, git remote set-url <name> <url>
GitRemoteSet(W, verb, name, url) ==
    [ success |-> TRUE,
      message |-> "",
      w |-> [Logged(W, << "remote " \o verb, name, url >>) EXCEPT
                !.remotes = [n \in (DOMAIN @) \cup {name} |-> IF n = name THEN url ELSE @[n]]] ]

\* The listed worktree that has <branch> checked out, Null if none.
CheckedOutAt(W, branch) ==
    IF \E i \in 1..Len(W.worktrees) : W.worktrees[i].branchRef = "refs/heads/" \o branch
    THEN W.worktrees[CHOOSE i \in 1..Len(W.worktrees) :
                        W.worktrees[i].branchRef = "refs/heads/" \o branch]
    ELSE Null

\* A `worktree add` that would not look at what the repository already holds.
GitWorktreeAddUnchecked(W, newBranch, directory, commitish) ==
    [ success |-> TRUE,
      message |-> "",
      w |-> [Logged(W, << "worktree add", directory, newBranch, commitish >>) EXCEPT
                !.heads = @ \cup (IF newBranch # "" THEN {newBranch} ELSE {}),
                !.dirs = @ \cup {directory},
                !.worktrees = Append(@,
                    [ worktree |-> directory,
                      branchRef |-> "refs/heads/"
                                        \o (IF newBranch # "" THEN newBranch ELSE commitish) ])] ]

\* git worktree add --no-checkout [-b <newBranch>] <directory> [<commitish>]
GitWorktreeAdd(W, newBranch, directory, commitish) ==
    LET L == Logged(W, << "worktree add", directory, newBranch, commitish >>)
        branch == IF newBranch # "" THEN newBranch ELSE commitish
        fail(message) == [success |-> FALSE, message |-> message, w |-> L]
    IN  IF newBranch # "" /\ newBranch \in W.heads
        THEN fail("fatal: a branch named '" \o newBranch \o "' already exists")
        ELSE IF checkPathExists(W, directory)
        THEN fail("fatal: '" \o directory \o "' already exists")
        ELSE IF ~GitRevParseVerify(W, commitish)
        THEN fail("fatal: invalid reference: " \o commitish)
        ELSE IF newBranch = "" /\ commitish \in W.heads /\ CheckedOutAt(W, commitish) # Null
        THEN fail("fatal: '" \o commitish \o "' is already checked out at '"
                    \o CheckedOutAt(W, commitish).worktree \o "'")
        ELSE [ success |-> TRUE,
               message |-> "",
               w |-> [L EXCEPT
                        !.heads = @ \cup (IF newBranch # "" THEN {newBranch} ELSE {}),
                        !.dirs = @ \cup {directory},
                        !.worktrees = Append(@,
                            [ worktree |-> directory,
                              branchRef |-> IF branch \in W.heads \cup {newBranch}
                                            THEN "refs/heads/" \o branch ELSE "" ])] ]

\* git reset --hard, in a worktree
\* `reset --hard` whose failure is not noticed
GitResetUnchecked(W, directory) ==
    [ success |-> TRUE, message |-> "", w |-> Logged(W, << "reset --hard", directory >>) ]

GitResetHard(W, directory) ==
    [ success |-> W.resetOk,
      message |-> IF W.resetOk THEN "" ELSE "error: unable to create file a.txt",
      w |-> Logged(W, << "reset --hard", directory >>) ]

\* git worktree remove --force <path>
GitWorktreeRemove(W, path) ==
    LET L == Logged(W, << "worktree remove", path >>)
        listed == \E i \in 2..Len(W.worktrees) : W.worktrees[i].worktree = path
    IN  [ success |-> listed,
          message |-> IF listed THEN "" ELSE "fatal: '" \o path \o "' is not a working tree",
          w |-> IF listed
                THEN [L EXCEPT !.worktrees = SelectSeq(@, LAMBDA e : e.worktree # path),
                               !.dirs = @ \ {path}]
                ELSE L ]

\* git branch -D <name>
GitBranchDelete(W, name) ==
    LET L == Logged(W, << "branch -D", name >>)
        ok == W.branchOk /\ name \in W.heads /\ CheckedOutAt(W, name) = Null
    IN  [ success |-> ok,
          message |-> IF ok THEN "" ELSE "error: cannot delete branch '" \o name \o "'",
          w |-> IF ok
                THEN [L EXCEPT !.heads = @ \ {name},
                               !.branchConfig = [b \in (DOMAIN @) \ {name} |-> @[b]]]
                ELSE L ]

\* git config branch.<name>.remote <remote> and branch.<name>.merge refs/heads/<branch>;
\* git branch --set-upstream-to=<remote>/<branch> <name> writes the same two keys.
GitSetTracking(W, how, localBranch, remote, branch) ==
    [ success |-> TRUE,
      message |-> "",
      w |-> [Logged(W, << how, localBranch, remote, branch >>) EXCEPT
                !.branchConfig = [b \in (DOMAIN @) \cup {localBranch} |->
                                    IF b = localBranch
                                    THEN [remote |-> remote, merge |-> "refs/heads/" \o branch]
                                    ELSE @[b]]] ]

\* git rev-parse --show-toplevel with <directory> as working directory: the worktree
\* that holds it, "" (nonzero exit) outside every worktree of the repository.
GitShowToplevel(W, directory) ==
    LET here == canonicalPath(W, directory)
    IN  IF checkPathExists(W, directory)
           /\ \E i \in 1..Len(W.worktrees) : W.worktrees[i].worktree = here
        THEN here
        ELSE ""

\* git rev-parse --git-common-dir
GitCommonDir(W, sandbox) == IF sandbox = PrimaryPath THEN ".git" ELSE pathJoin(PrimaryPath, ".git")

(***************************************************************************)
(* Project context and project id.                                         *)
(***************************************************************************)
HexDigits == "0123456789abcdef"

\* a.localeCompare(b) < 0 on commit hashes
RECURSIVE StrLess(_, _)
StrLess(a, b) ==
    IF b = "" THEN FALSE
    ELSE IF a = "" THEN TRUE
    ELSE IF CharAt(a, 0) = CharAt(b, 0) THEN StrLess(Substring(a, 1), Substring(b, 1))
    ELSE IndexOf(HexDigits, CharAt(a, 0)) < IndexOf(HexDigits, CharAt(b, 0))

\* path.dirname and the last component of a path
RECURSIVE pathDirname(_)
pathDirname(p) ==
    IF p = "" THEN ""
    ELSE IF CharAt(p, Len(p) - 1) = "/" THEN Slice(p, 0, Len(p) - 1)
    ELSE pathDirname(Slice(p, 0, Len(p) - 1))

\* path.resolve(base, p)
pathResolveFrom(base, p) == IF StartsWith(p, "/") THEN pathResolve(p) ELSE pathJoin(base, p)

ensureOpenCodeProjectId(W, primaryWorktree) ==
    LET existing == Trim(W.marker)
        sorted == IF W.roots = {} THEN ""
                  ELSE CHOOSE r \in W.roots : \A o \in W.roots : o = r \/ StrLess(r, o)
        projectId == sorted
    IN  IF existing # "" THEN [err |-> "", projectID |-> existing, w |-> W]
        ELSE IF projectId = ""
        THEN [err |-> "Failed to derive OpenCode project ID", projectID |-> "", w |-> W]
        ELSE IF ~W.markerOk
        THEN [ err |-> "", projectID |-> projectId,
               w |-> Logged(W, << "write marker failed", projectId >>) ]
        ELSE [ err |-> "",
               projectID |-> projectId,
               w |-> [Logged(W, << "write marker", projectId >>) EXCEPT !.marker = projectId] ]

resolveWorktreeProjectContext(W, directory) ==
    LET directoryPath == normalizeDirectoryPath(directory)
        top == GitShowToplevel(W, directoryPath)
        sandbox == pathResolveFrom(directoryPath, top)
        commonDir == pathResolveFrom(sandbox, GitCommonDir(W, sandbox))
        primaryWorktree == pathDirname(commonDir)
        id == ensureOpenCodeProjectId(W, primaryWorktree)
        none == [projectID |-> "", sandbox |-> "", primaryWorktree |-> "", worktreeRoot |-> ""]
    IN  IF directoryPath = ""
        THEN [err |-> "Directory is required", w |-> W] @@ none
        ELSE IF top = ""
        THEN [err |-> "fatal: not a git repository", w |-> W] @@ none
        ELSE IF id.err # ""
        THEN [err |-> id.err, w |-> id.w] @@ none
        ELSE [ err |-> "",
               w |-> id.w,
               projectID |-> id.projectID,
               sandbox |-> sandbox,
               primaryWorktree |-> primaryWorktree,
               worktreeRoot |-> pathJoin(pathJoin(OpenCodeDataPath, "worktree"), id.projectID) ]

\* git worktree list --porcelain, parsed: each entry with its branch ref and branch
listWorktreeEntries(W) ==
    [ i \in 1..Len(W.worktrees) |->
        [ worktree  |-> W.worktrees[i].worktree,
          branchRef |-> W.worktrees[i].branchRef,
          branch    |-> cleanBranchName(W.worktrees[i].branchRef) ] ]

\* findBranchInUse that finds no worktree
noBranchInUse(W, localBranchName) == Null

findBranchInUse(W, localBranchName) ==
    LET entries == listWorktreeEntries(W)
        targetRef == "refs/heads/" \o localBranchName
        targetClean == cleanBranchName(targetRef)
        matches(entry) ==
            LET entryRef == Trim(entry.branchRef)
                entryClean == cleanBranchName(IF entryRef # "" THEN entryRef ELSE entry.branch)
            IN  entryRef = targetRef \/ entryClean = targetClean
    IN  IF localBranchName = "" THEN Null
        ELSE IF \E i \in 1..Len(entries) : matches(entries[i])
        THEN entries[CHOOSE i \in 1..Len(entries) :
                        matches(entries[i]) /\ \A j \in 1..(i - 1) : ~matches(entries[j])]
        ELSE Null

(***************************************************************************)
(* The project metadata store.                                             *)
(***************************************************************************)
\* A list written as it is, duplicates included
DedupeKept(list) == list

\* [...new Set(list)]: the first occurrence of each entry, in order
RECURSIVE Dedupe(_)
Dedupe(list) ==
    IF list = << >> THEN << >>
    ELSE LET front == Dedupe(SubSeq(list, 1, Len(list) - 1))
             last == list[Len(list)]
         IN  IF \E i \in 1..Len(front) : front[i] = last THEN front ELSE Append(front, last)

\* list.map(entry => String(entry || '').trim()).filter(Boolean)
TrimmedEntries(list) ==
    SelectSeq([i \in 1..Len(list) |-> Trim(list[i])], LAMBDA e : e # "")

\* The two updaters: updater.push adds updater.sandbox unless present, otherwise every
\* entry equal to updater.sandbox is filtered out.
applyUpdater(list, updater) ==
    IF updater.push
    THEN IF \E i \in 1..Len(list) : list[i] = updater.sandbox
         THEN list
         ELSE Append(list, updater.sandbox)
    ELSE SelectSeq(list, LAMBDA entry : entry # updater.sandbox)

\* When the store cannot be written the promise rejects with the record as it was; both
\* callers catch the rejection and log a warning.  A stored record may lack `time`, and
\* its time may lack `created`: that stands for every value Number() does not turn into a
\* finite number.
updateProjectSandboxes(W, projectID, primaryWorktree, updater) ==
    LET now == W.now
        base == [ id |-> projectID, worktree |-> primaryWorktree, vcs |-> "git",
                  sandboxes |-> << >>, time |-> [created |-> now, updated |-> now] ]
        current == IF W.project = Null THEN base ELSE W.project @@ base
        createdIsNumber == "created" \in DOMAIN current.time
        read == [ id |-> IF current.id = "" THEN projectID ELSE current.id,
                  worktree |-> IF current.worktree = "" THEN primaryWorktree ELSE current.worktree,
                  vcs |-> IF current.vcs = "" THEN "git" ELSE current.vcs,
                  sandboxes |-> TrimmedEntries(current.sandboxes),
                  time |-> [ created |-> IF createdIsNumber /\ current.time.created > 0
                                         THEN current.time.created ELSE now,
                             updated |-> now ] ]
        updated == [read EXCEPT !.sandboxes = applyUpdater(@, updater)]
        written == [updated EXCEPT !.sandboxes = Dedupe(TrimmedEntries(@))]
    IN  IF ~W.storeOk THEN Logged(W, << "store write failed", projectID >>)
        ELSE [Logged(W, << "store write", projectID >>) EXCEPT !.project = written]

syncProjectSandboxAdd(W, projectID, primaryWorktree, sandboxPath) ==
    LET sandbox == Trim(sandboxPath)
    IN  IF sandbox = "" THEN W
        ELSE updateProjectSandboxes(W, projectID, primaryWorktree,
                                    [push |-> TRUE, sandbox |-> sandbox])

\* syncProjectSandboxRemove that leaves the record alone
keepSandbox(W, projectID, primaryWorktree, sandboxPath) == W

syncProjectSandboxRemove(W, projectID, primaryWorktree, sandboxPath) ==
    LET sandbox == Trim(sandboxPath)
    IN  IF sandbox = "" THEN W
        ELSE updateProjectSandboxes(W, projectID, primaryWorktree,
                                    [push |-> FALSE, sandbox |-> sandbox])

(***************************************************************************)
(* Worktree names.                                                         *)
(***************************************************************************)
OPENCODE_ADJECTIVES ==
    << "brave", "calm", "clever", "cosmic", "crisp", "curious", "eager", "gentle", "glowing",
       "happy", "hidden", "jolly", "kind", "lucky", "mighty", "misty", "neon", "nimble",
       "playful", "proud", "quick", "quiet", "shiny", "silent", "stellar", "sunny", "swift",
       "tidy", "witty" >>

OPENCODE_NOUNS ==
    << "cabin", "cactus", "canyon", "circuit", "comet", "eagle", "engine", "falcon", "forest",
       "garden", "harbor", "island", "knight", "lagoon", "meadow", "moon", "mountain", "nebula",
       "orchid", "otter", "panda", "pixel", "planet", "river", "rocket", "sailor", "squid",
       "star", "tiger", "wizard", "wolf" >>

OPENCODE_WORKTREE_ATTEMPTS == 26

\* How many words of each list the random source may return.
MaxAdjectives == 1

MaxNouns == 1

\* pickRandom(values): any element
pickRandom(values, bound) ==
    { values[i] : i \in 1..(IF bound < Len(values) THEN bound ELSE Len(values)) }

\* generateOpenCodeRandomName(): the names one call may return
generateOpenCodeRandomName ==
    { a \o "-" \o n : a \in pickRandom(OPENCODE_ADJECTIVES, MaxAdjectives),
                      n \in pickRandom(OPENCODE_NOUNS, MaxNouns) }

\* Candidates that never carry the requested name
randomNameOnly(baseName, index) == generateOpenCodeRandomName

\* resolveWorktreeNameCandidates(baseName)[index]: the names the candidate may be
resolveWorktreeNameCandidates(baseName, index) ==
    LET normalizedBase == slugWorktreeName(baseName)
    IN  IF normalizedBase = "" THEN generateOpenCodeRandomName
        ELSE IF index = 0 THEN {normalizedBase}
        ELSE { normalizedBase \o "-" \o r : r \in generateOpenCodeRandomName }

\* resolveCandidateDirectory: the results the loop may end with from candidate <index>
\* on, over every value the random names may take.
RECURSIVE CandidateFrom(_, _, _, _, _)
CandidateFrom(W, worktreeRoot, preferredName, explicitBranchName, index) ==
    LET later == CandidateFrom(W, worktreeRoot, preferredName, explicitBranchName, index + 1)
        try(name) ==
            LET directory == pathJoin(worktreeRoot, name)
                branch == "openchamber/" \o name
                found(b) == [err |-> "", name |-> name, directory |-> directory, branch |-> b]
            IN  IF checkPathExists(W, directory) THEN later
                ELSE IF explicitBranchName # "" THEN {found(explicitBranchName)}
                ELSE IF GitShowRef(W, "refs/heads/" \o branch) THEN later
                ELSE {found(branch)}
    IN  IF index >= OPENCODE_WORKTREE_ATTEMPTS
        THEN {[ err |-> "Failed to generate a unique worktree name",
                name |-> "", directory |-> "", branch |-> "" ]}
        ELSE UNION { try(name) : name \in resolveWorktreeNameCandidates(preferredName, index) }

\* resolveCandidateDirectory that looks at the directory of a candidate only
resolveCandidateByDirectory(W, worktreeRoot, preferredName, explicitBranchName) ==
    CandidateFrom(W, worktreeRoot, preferredName,
                  IF explicitBranchName # "" THEN explicitBranchName
                  ELSE "openchamber/" \o preferredName, 0)

resolveCandidateDirectory(W, worktreeRoot, preferredName, explicitBranchName) ==
    CandidateFrom(W, worktreeRoot, preferredName, explicitBranchName, 0)

(***************************************************************************)
(* Remotes and branch resolution.                                          *)
(***************************************************************************)
\* fetchRemoteBranchRef that fetches nothing
fetchRemoteBranchRefSkipped(W, remoteName, branchName) == [err |-> "", w |-> W]

fetchRemoteBranchRef(W, remoteName, branchName) ==
    LET remote == Trim(remoteName)
        branch == Trim(branchName)
        fetch == GitFetch(W, remote, branch)
    IN  IF remote = "" \/ branch = "" THEN [err |-> "", w |-> W]
        ELSE IF fetch.success THEN [err |-> "", w |-> fetch.w]
        ELSE [err |-> fetch.message, w |-> fetch.w]

resolveBranchForExistingMode(W, existingBranch, preferredBranchName) ==
    LET requested == Trim(existingBranch)
        normalizedLocal == cleanBranchName(requested)
        localRef == "refs/heads/" \o normalizedLocal
        remoteRef == parseRemoteBranchRef(requested)
        fetched == fetchRemoteBranchRef(W, remoteRef.remote, remoteRef.branch).w
        localBranch == cleanBranchName(IF preferredBranchName # "" THEN preferredBranchName
                                       ELSE remoteRef.branch)
        failed(message, world) ==
            [ err |-> message, localBranch |-> "", checkoutRef |-> "",
              createLocalBranch |-> FALSE, remoteRef |-> Null, w |-> world ]
        remote(world) ==
            IF localBranch = ""
            THEN failed("Failed to resolve local branch name for existing branch worktree", world)
            ELSE [ err |-> "", localBranch |-> localBranch, checkoutRef |-> remoteRef.remoteRef,
                   createLocalBranch |-> TRUE, remoteRef |-> remoteRef, w |-> world ]
    IN  IF requested = "" THEN failed("existingBranch is required in existing mode", W)
        ELSE IF GitShowRef(W, localRef)
        THEN [ err |-> "", localBranch |-> normalizedLocal, checkoutRef |-> normalizedLocal,
               createLocalBranch |-> FALSE, remoteRef |-> Null, w |-> W ]
        ELSE IF remoteRef = Null THEN failed("Branch not found: " \o requested, W)
        ELSE IF GitShowRef(W, remoteRef.fullRef) THEN remote(W)
        ELSE IF ~GitShowRef(fetched, remoteRef.fullRef)
        THEN failed("Remote branch not found: " \o requested, fetched)
        ELSE remote(fetched)

ensureRemoteWithUrl(W, remoteName, remoteUrl) ==
    LET name == Trim(remoteName)
        url == Trim(remoteUrl)
        getUrl == GitRemoteGetUrl(W, name)
    IN  IF name = "" \/ url = "" THEN [err |-> "", w |-> W]
        ELSE IF getUrl.success
        THEN IF Trim(getUrl.stdout) # url
             THEN [err |-> "", w |-> GitRemoteSet(W, "set-url", name, url).w]
             ELSE [err |-> "", w |-> W]
        ELSE [err |-> "", w |-> GitRemoteSet(W, "add", name, url).w]

checkRemoteBranchExists(W, remoteName, branchName, remoteUrl) ==
    LET remote == Trim(remoteName)
        branch == Trim(branchName)
        url == Trim(remoteUrl)
        target == IF url # "" THEN url ELSE remote
        lsRemote == GitLsRemote(W, target, branch)
    IN  IF remote = "" \/ branch = "" THEN [success |-> FALSE, found |-> FALSE]
        ELSE IF ~lsRemote.success THEN [success |-> FALSE, found |-> FALSE]
        ELSE [success |-> TRUE, found |-> Trim(lsRemote.stdout) # ""]

\* setBranchTrackingFallback that writes no key
setBranchTrackingSkipped(W, worktreeDirectory, localBranch, upstream) == [err |-> "", w |-> W]

setBranchTrackingFallback(W, worktreeDirectory, localBranch, upstream) ==
    [ err |-> "",
      w |-> GitSetTracking(W, "config", localBranch, upstream.remote, upstream.branch).w ]

applyUpstreamConfiguration(W, worktreeDirectory, localBranch, setUpstream, upstreamRemote, upstreamBranch, ensureRemoteName, ensureRemoteUrl) ==
    LET ensured == IF ensureRemoteName # "" /\ ensureRemoteUrl # ""
                   THEN ensureRemoteWithUrl(W, ensureRemoteName, ensureRemoteUrl)
                   ELSE [err |-> "", w |-> W]
        upstream == normalizeUpstreamTarget(upstreamRemote, upstreamBranch)
        fetch == fetchRemoteBranchRef(ensured.w, upstream.remote, upstream.branch)
    IN  IF ~setUpstream THEN [err |-> "", w |-> W]
        ELSE IF ensured.err # "" THEN ensured
        ELSE IF upstream = Null \/ localBranch = "" THEN [err |-> "", w |-> ensured.w]
        ELSE IF fetch.err = ""
        THEN [ err |-> "",
               w |-> GitSetTracking(fetch.w, "set-upstream-to", localBranch,
                                    upstream.remote, upstream.branch).w ]
        ELSE setBranchTrackingFallback(fetch.w, worktreeDirectory, localBranch, upstream)

(***************************************************************************)
(* validateWorktreeCreate                                                  *)
(***************************************************************************)
ValidationError(code, message) == [code |-> code, message |-> message]

InputMode(input) == IF input.mode = "existing" THEN "existing" ELSE "new"

\* The existing-mode block of validateWorktreeCreate, its try/catch included.
validateExistingBranch(W, input, preferredBranchName, ensureRemoteName, ensureRemoteUrl) ==
    LET requestedExistingBranch == Trim(input.existingBranch)
        parsedExistingRemote == parseRemoteBranchRef(requestedExistingBranch)
        lsRemote == GitLsRemote(W, ensureRemoteUrl, parsedExistingRemote.branch)
        resolved == resolveBranchForExistingMode(W, requestedExistingBranch, preferredBranchName)
        caught(message, world) ==
            [ localBranch |-> "", inferredUpstream |-> Null,
              errors |-> << ValidationError("branch_not_found", message) >>, w |-> world ]
    IN  IF /\ parsedExistingRemote # Null
           /\ ensureRemoteName # ""
           /\ ensureRemoteUrl # ""
           /\ ensureRemoteName = parsedExistingRemote.remote
        THEN IF ~lsRemote.success
             THEN caught("Unable to query remote " \o ensureRemoteName, W)
             ELSE IF Trim(lsRemote.stdout) = ""
             THEN caught("Remote branch not found: " \o parsedExistingRemote.remoteRef, W)
             ELSE [ localBranch |-> cleanBranchName(IF preferredBranchName # ""
                                                    THEN preferredBranchName
                                                    ELSE parsedExistingRemote.branch),
                    inferredUpstream |-> [ remote |-> parsedExistingRemote.remote,
                                           branch |-> parsedExistingRemote.branch ],
                    errors |-> << >>,
                    w |-> W ]
        ELSE IF resolved.err # "" THEN caught(resolved.err, resolved.w)
        ELSE [ localBranch |-> resolved.localBranch,
               inferredUpstream |-> IF resolved.remoteRef # Null
                                    THEN [ remote |-> resolved.remoteRef.remote,
                                           branch |-> resolved.remoteRef.branch ]
                                    ELSE Null,
               errors |-> << >>,
               w |-> resolved.w ]

\* The new-mode block of validateWorktreeCreate.
validateNewBranch(W, preferredBranchName, startRef, ensureRemoteName, ensureRemoteUrl) ==
    LET exists == GitShowRef(W, "refs/heads/" \o preferredBranchName)
        branchErrors ==
            IF preferredBranchName # "" /\ exists
            THEN << ValidationError("branch_exists", "Branch already exists: " \o preferredBranchName) >>
            ELSE << >>
        parsedRemoteRef == parseRemoteBranchRef(startRef)
        viaUrl == checkRemoteBranchExists(W, parsedRemoteRef.remote, parsedRemoteRef.branch, ensureRemoteUrl)
        viaName == checkRemoteBranchExists(W, parsedRemoteRef.remote, parsedRemoteRef.branch, "")
        remoteErrors(remoteCheck, name) ==
            IF ~remoteCheck.success
            THEN << ValidationError("remote_unreachable", "Unable to query remote " \o name) >>
            ELSE IF ~remoteCheck.found
            THEN << ValidationError("start_ref_not_found",
                                    "Remote branch not found: " \o parsedRemoteRef.remoteRef) >>
            ELSE << >>
        startErrors ==
            IF startRef = "" \/ startRef = "HEAD" THEN << >>
            ELSE IF /\ parsedRemoteRef # Null
                    /\ ensureRemoteName # ""
                    /\ ensureRemoteUrl # ""
                    /\ ensureRemoteName = parsedRemoteRef.remote
            THEN remoteErrors(viaUrl, ensureRemoteName)
            ELSE IF parsedRemoteRef # Null
            THEN remoteErrors(viaName, parsedRemoteRef.remote)
            ELSE IF ~GitRevParseVerify(W, startRef)
            THEN << ValidationError("start_ref_not_found", "Start ref not found: " \o startRef) >>
            ELSE << >>
    IN  [ localBranch |-> preferredBranchName,
          inferredUpstream |-> IF parsedRemoteRef # Null
                               THEN [remote |-> parsedRemoteRef.remote, branch |-> parsedRemoteRef.branch]
                               ELSE Null,
          errors |-> branchErrors \o startErrors,
          w |-> W ]

\* `a || b` on strings
OrElse(a, b) == IF a # "" THEN a ELSE b

\* The checks that follow the mode block: the branch in use, the ensure-remote pair and
\* the upstream.  branch is what the mode block resolved.
validateChecks(mode, input, branch, ensureRemoteName, ensureRemoteUrl) ==
    LET localBranch == branch.localBranch
        inUse == findBranchInUse(branch.w, localBranch)
        inUseErrors ==
            IF localBranch # "" /\ inUse # Null
            THEN << ValidationError("branch_in_use",
                                    "Branch is already checked out in " \o inUse.worktree) >>
            ELSE << >>
        pairErrors ==
            IF (ensureRemoteName # "" /\ ensureRemoteUrl = "") \/ (ensureRemoteName = "" /\ ensureRemoteUrl # "")
            THEN << ValidationError("invalid_remote_config",
                                    "Both ensureRemoteName and ensureRemoteUrl are required together") >>
            ELSE << >>
        inferredRemote == IF branch.inferredUpstream # Null THEN branch.inferredUpstream.remote ELSE ""
        inferredBranch == IF branch.inferredUpstream # Null THEN branch.inferredUpstream.branch ELSE ""
        upstreamRemote == Trim(OrElse(input.upstreamRemote, inferredRemote))
        upstreamBranch == Trim(OrElse(input.upstreamBranch, inferredBranch))
        remoteExists == GitRemoteGetUrl(branch.w, upstreamRemote)
        upstreamErrors ==
            IF ~input.setUpstream THEN << >>
            ELSE IF upstreamRemote = "" \/ upstreamBranch = ""
            THEN << ValidationError("upstream_incomplete",
                        "upstreamRemote and upstreamBranch are required when setUpstream is true") >>
            ELSE IF ~remoteExists.success /\ (ensureRemoteName = "" \/ ensureRemoteName # upstreamRemote)
            THEN << ValidationError("remote_not_found", "Remote not found: " \o upstreamRemote) >>
            ELSE << >>
    IN  [ errors |-> branch.errors \o inUseErrors \o pairErrors \o upstreamErrors,
          resolved |-> [mode |-> mode, localBranch |-> localBranch],
          w |-> branch.w ]

\* The result object built from the collected errors.
validateResult(checks) ==
    [ ok |-> Len(checks.errors) = 0,
      errors |-> checks.errors,
      resolved |-> checks.resolved,
      w |-> checks.w ]

\* validateWorktreeCreate once the project context is resolved.
validateInContext(context, input, preferredBranchName, startRef, ensureRemoteName, ensureRemoteUrl) ==
    IF context.err # ""
    THEN [ ok |-> FALSE,
           errors |-> << ValidationError("validation_failed", context.err) >>,
           resolved |-> Null,
           w |-> context.w ]
    ELSE validateResult(validateChecks(InputMode(input), input,
            IF InputMode(input) = "existing"
            THEN validateExistingBranch(context.w, input, preferredBranchName,
                                        ensureRemoteName, ensureRemoteUrl)
            ELSE validateNewBranch(context.w, preferredBranchName, startRef,
                                   ensureRemoteName, ensureRemoteUrl),
            ensureRemoteName, ensureRemoteUrl))

validateWorktreeCreate(W, directory, input) ==
    validateInContext(resolveWorktreeProjectContext(W, directory), input,
                      cleanBranchName(Trim(input.branchName)), normalizeStartRef(input.startRef),
                      Trim(input.ensureRemoteName), Trim(input.ensureRemoteUrl))

(***************************************************************************)
(* createWorktree.  The call runs in two stretches: createPlan, from the   *)
(* resolution of the context to the last check before the repository is    *)
(* changed, and createExec, from there to the return.  The candidate is    *)
(* one of the results resolveCandidateDirectory may give.                  *)
(***************************************************************************)
NoPlan ==
    [ projectID |-> "", primaryWorktree |-> "", name |-> "", directory |-> "",
      localBranch |-> "", newBranch |-> "", commitish |-> "", inferredUpstream |-> Null ]

\* The mkdir of the worktree root
withWorktreeRoot(context) ==
    IF context.err # "" THEN context
    ELSE [context EXCEPT !.w = [Logged(@, << "mkdir", context.worktreeRoot >>) EXCEPT
                                    !.dirs = @ \cup {context.worktreeRoot}]]

\* resolveWorktreeProjectContext and the mkdir of the worktree root
createContext(W, directory) == withWorktreeRoot(resolveWorktreeProjectContext(W, directory))

\* The candidates resolveCandidateDirectory may give in the resolved context.
candidatesIn(context, preferredName, explicitBranchName) ==
    IF context.err # "" THEN {[err |-> context.err, name |-> "", directory |-> "", branch |-> ""]}
    ELSE resolveCandidateDirectory(context.w, context.worktreeRoot, preferredName, explicitBranchName)

createCandidates(W, directory, input) ==
    candidatesIn(createContext(W, directory), Trim(input.worktreeName),
                 IF InputMode(input) = "new" /\ cleanBranchName(Trim(input.branchName)) # ""
                 THEN cleanBranchName(Trim(input.branchName)) ELSE "")

\* existing mode, from the resolved branch to the worktree-add arguments
createPlanResolved(context, candidate, resolved, inUse) ==
    IF resolved.err # "" THEN [err |-> resolved.err, w |-> resolved.w] @@ NoPlan
    ELSE IF inUse # Null
    THEN [err |-> "Branch is already checked out in " \o inUse.worktree, w |-> resolved.w]
            @@ [NoPlan EXCEPT !.localBranch = resolved.localBranch]
    ELSE [ err |-> "", w |-> resolved.w,
           projectID |-> context.projectID, primaryWorktree |-> context.primaryWorktree,
           name |-> candidate.name, directory |-> candidate.directory,
           localBranch |-> resolved.localBranch,
           newBranch |-> IF resolved.createLocalBranch THEN resolved.localBranch ELSE "",
           commitish |-> resolved.checkoutRef,
           inferredUpstream |-> IF resolved.remoteRef # Null
                                THEN [ remote |-> resolved.remoteRef.remote,
                                       branch |-> resolved.remoteRef.branch ]
                                ELSE Null ]

\* existing mode, the branch resolved in the world the remote preparation left
createPlanPrepared(context, candidate, resolved) ==
    createPlanResolved(context, candidate, resolved,
                       IF resolved.err # "" THEN Null
                       ELSE findBranchInUse(resolved.w, resolved.localBranch))

\* existing mode, up to the worktree-add arguments
createPlanExisting(W, context, candidate, input, preferredBranchName, ensureRemoteName, ensureRemoteUrl) ==
    LET requestedExistingBranch == Trim(input.existingBranch)
        parsedExistingRemote == parseRemoteBranchRef(requestedExistingBranch)
        matching == /\ parsedExistingRemote # Null
                    /\ ensureRemoteName # ""
                    /\ ensureRemoteUrl # ""
                    /\ parsedExistingRemote.remote = ensureRemoteName
        ensured == ensureRemoteWithUrl(W, ensureRemoteName, ensureRemoteUrl)
        fetched == fetchRemoteBranchRef(ensured.w, parsedExistingRemote.remote, parsedExistingRemote.branch)
        prepared == IF ~matching THEN [err |-> "", w |-> W]
                    ELSE IF ensured.err # "" THEN ensured
                    ELSE fetched
    IN  IF prepared.err # "" THEN [err |-> prepared.err, w |-> prepared.w] @@ NoPlan
        ELSE createPlanPrepared(context, candidate,
                resolveBranchForExistingMode(prepared.w, requestedExistingBranch, preferredBranchName))

\* new mode, up to the worktree-add arguments
createPlanNew(W, context, candidate, startRef) ==
    LET localBranch == candidate.branch
        branchExists == GitShowRef(W, "refs/heads/" \o localBranch)
        inUse == findBranchInUse(W, localBranch)
        parsedRemoteStartRef == parseRemoteBranchRef(startRef)
    IN  IF localBranch = ""
        THEN [err |-> "Failed to resolve branch name for new worktree", w |-> W] @@ NoPlan
        ELSE IF branchExists
        THEN [err |-> "Branch already exists: " \o localBranch, w |-> W]
                @@ [NoPlan EXCEPT !.localBranch = localBranch]
        ELSE IF inUse # Null
        THEN [err |-> "Branch is already checked out in " \o inUse.worktree, w |-> W]
                @@ [NoPlan EXCEPT !.localBranch = localBranch]
        ELSE [ err |-> "", w |-> W,
               projectID |-> context.projectID, primaryWorktree |-> context.primaryWorktree,
               name |-> candidate.name, directory |-> candidate.directory,
               localBranch |-> localBranch,
               newBranch |-> localBranch,
               commitish |-> IF startRef # "" /\ startRef # "HEAD" THEN startRef ELSE "HEAD",
               inferredUpstream |-> IF parsedRemoteStartRef # Null
                                    THEN [ remote |-> parsedRemoteStartRef.remote,
                                           branch |-> parsedRemoteStartRef.branch ]
                                    ELSE Null ]

\* createWorktree from the resolved context to the last check before the repository
\* is changed.
createPlanIn(context, input, candidate, preferredBranchName, startRef, ensureRemoteName, ensureRemoteUrl) ==
    IF context.err # "" THEN [err |-> context.err, w |-> context.w] @@ NoPlan
    ELSE IF candidate.err # "" THEN [err |-> candidate.err, w |-> context.w] @@ NoPlan
    ELSE IF InputMode(input) = "existing"
    THEN createPlanExisting(context.w, context, candidate, input, preferredBranchName,
                            ensureRemoteName, ensureRemoteUrl)
    ELSE createPlanNew(context.w, context, candidate, startRef)

createPlan(W, directory, input, candidate) ==
    createPlanIn(createContext(W, directory), input, candidate,
                 cleanBranchName(Trim(input.branchName)), normalizeStartRef(input.startRef),
                 Trim(input.ensureRemoteName), Trim(input.ensureRemoteUrl))

\* input?.startCommand
startCommandOf(input) == IF "startCommand" \in DOMAIN input THEN input.startCommand ELSE ""

\* setTimeout(..., 0): the task is scheduled and the caller goes on.  The tasks scheduled
\* for one directory with one command are not told apart.
queueWorktreeStartScripts(W, directory, projectID, startCommand) ==
    [Logged(W, << "queue start scripts", directory >>) EXCEPT
        !.queued = @ \cup {[ directory |-> directory, projectID |-> projectID,
                             startCommand |-> startCommand, pc |-> "queued" ]}]

\* From the second ensureRemoteWithUrl to the return.
createExec(W, plan, input) ==
    LET mode == InputMode(input)
        startRef == normalizeStartRef(input.startRef)
        ensureRemoteName == Trim(input.ensureRemoteName)
        ensureRemoteUrl == Trim(input.ensureRemoteUrl)
        ensured == IF ensureRemoteName # "" /\ ensureRemoteUrl # ""
                   THEN ensureRemoteWithUrl(W, ensureRemoteName, ensureRemoteUrl)
                   ELSE [err |-> "", w |-> W]
        parsedRemoteStartRef == parseRemoteBranchRef(startRef)
        fetched == IF mode = "new" /\ parsedRemoteStartRef # Null
                   THEN fetchRemoteBranchRef(ensured.w, parsedRemoteStartRef.remote,
                                             parsedRemoteStartRef.branch)
                   ELSE [err |-> "", w |-> ensured.w]
        added == GitWorktreeAdd(fetched.w, plan.newBranch, plan.directory, plan.commitish)
        populated == GitResetHard(added.w, plan.directory)
        synced == syncProjectSandboxAdd(populated.w, plan.projectID, plan.primaryWorktree, plan.directory)
        inferredRemote == IF plan.inferredUpstream # Null THEN plan.inferredUpstream.remote ELSE ""
        inferredBranch == IF plan.inferredUpstream # Null THEN plan.inferredUpstream.branch ELSE ""
        upstreamRemote == Trim(OrElse(input.upstreamRemote, inferredRemote))
        upstreamBranch == Trim(OrElse(input.upstreamBranch, inferredBranch))
        upstream == IF input.setUpstream
                    THEN applyUpstreamConfiguration(synced, plan.directory, plan.localBranch, TRUE,
                            upstreamRemote, upstreamBranch, ensureRemoteName, ensureRemoteUrl)
                    ELSE [err |-> "", w |-> synced]
        thrown(message, world) == [err |-> message, value |-> Null, w |-> world]
    IN  IF ensured.err # "" THEN thrown(ensured.err, ensured.w)
        ELSE IF fetched.err # "" THEN thrown(fetched.err, fetched.w)
        ELSE IF ~added.success THEN thrown(added.message, added.w)
        ELSE IF ~populated.success THEN thrown(populated.message, populated.w)
        ELSE IF upstream.err # "" THEN thrown(upstream.err, upstream.w)
        ELSE [ err |-> "",
               value |-> [name |-> plan.name, branch |-> plan.localBranch, path |-> plan.directory],
               w |-> queueWorktreeStartScripts(upstream.w, plan.directory, plan.projectID,
                                               startCommandOf(input)) ]

\* createExec up to `reset --hard`: what the call has done when it turns to the
\* project record.
createUntilPopulated(W, plan, input) ==
    LET mode == InputMode(input)
        startRef == normalizeStartRef(input.startRef)
        ensureRemoteName == Trim(input.ensureRemoteName)
        ensureRemoteUrl == Trim(input.ensureRemoteUrl)
        ensured == IF ensureRemoteName # "" /\ ensureRemoteUrl # ""
                   THEN ensureRemoteWithUrl(W, ensureRemoteName, ensureRemoteUrl)
                   ELSE [err |-> "", w |-> W]
        parsedRemoteStartRef == parseRemoteBranchRef(startRef)
        fetched == IF mode = "new" /\ parsedRemoteStartRef # Null
                   THEN fetchRemoteBranchRef(ensured.w, parsedRemoteStartRef.remote,
                                             parsedRemoteStartRef.branch)
                   ELSE [err |-> "", w |-> ensured.w]
        added == GitWorktreeAdd(fetched.w, plan.newBranch, plan.directory, plan.commitish)
        populated == GitResetHard(added.w, plan.directory)
    IN  IF ensured.err # "" THEN [err |-> ensured.err, w |-> ensured.w]
        ELSE IF fetched.err # "" THEN [err |-> fetched.err, w |-> fetched.w]
        ELSE IF ~added.success THEN [err |-> added.message, w |-> added.w]
        ELSE IF ~populated.success THEN [err |-> populated.message, w |-> populated.w]
        ELSE [err |-> "", w |-> populated.w]

\* createExec from the upstream configuration on: what the call does once it is done
\* with the project record.
createAfterSync(W, plan, input) ==
    LET inferredRemote == IF plan.inferredUpstream # Null THEN plan.inferredUpstream.remote ELSE ""
        inferredBranch == IF plan.inferredUpstream # Null THEN plan.inferredUpstream.branch ELSE ""
        upstream == IF input.setUpstream
                    THEN applyUpstreamConfiguration(W, plan.directory, plan.localBranch, TRUE,
                            Trim(OrElse(input.upstreamRemote, inferredRemote)),
                            Trim(OrElse(input.upstreamBranch, inferredBranch)),
                            Trim(input.ensureRemoteName), Trim(input.ensureRemoteUrl))
                    ELSE [err |-> "", w |-> W]
    IN  IF upstream.err # "" THEN [err |-> upstream.err, value |-> Null, w |-> upstream.w]
        ELSE [ err |-> "",
               value |-> [name |-> plan.name, branch |-> plan.localBranch, path |-> plan.directory],
               w |-> queueWorktreeStartScripts(upstream.w, plan.directory, plan.projectID,
                                               startCommandOf(input)) ]

\* A createWorktree that would let a failing metadata store fail the call.
createFromPlanStrict(plan, input) ==
    IF plan.err # ""
    THEN [err |-> plan.err, value |-> Null, w |-> plan.w, localBranch |-> plan.localBranch]
    ELSE IF ~plan.w.storeOk
    THEN [ err |-> "ENOSPC: no space left on device, write", value |-> Null, w |-> plan.w,
           localBranch |-> plan.localBranch ]
    ELSE createExec(plan.w, plan, input) @@ [localBranch |-> plan.localBranch]

\* createWorktree once the plan is made.  localBranch is the local branch the call had
\* resolved when it ended, "" if none.
createFromPlan(plan, input) ==
    IF plan.err # ""
    THEN [err |-> plan.err, value |-> Null, w |-> plan.w, localBranch |-> plan.localBranch]
    ELSE createExec(plan.w, plan, input) @@ [localBranch |-> plan.localBranch]

createWorktree(W, directory, input, candidate) ==
    createFromPlan(createPlan(W, directory, input, candidate), input)

(***************************************************************************)
(* removeWorktree                                                          *)
(***************************************************************************)
\* The first entry of the worktree list whose canonical path is the target's, Null if
\* there is none.
findWorktreeEntry(W, targetDirectory) ==
    LET targetCanonical == canonicalPath(W, targetDirectory)
        entries == listWorktreeEntries(W)
        matches(entry) == entry.worktree # "" /\ canonicalPath(W, entry.worktree) = targetCanonical
    IN  IF \E i \in 1..Len(entries) : matches(entries[i])
        THEN entries[CHOOSE i \in 1..Len(entries) :
                        matches(entries[i]) /\ \A j \in 1..(i - 1) : ~matches(entries[j])]
        ELSE Null

\* The target is in no entry of the worktree list.
removeUnlisted(context, targetDirectory) ==
    LET deleted == IF checkPathExists(context.w, targetDirectory)
                   THEN [Logged(context.w, << "rm", targetDirectory >>) EXCEPT
                            !.dirs = @ \ {RealPath(pathResolve(targetDirectory))}]
                   ELSE context.w
    IN  IF checkPathExists(context.w, targetDirectory) /\ ~context.w.rmOk
        THEN [ err |-> "EACCES: permission denied, rmdir '" \o targetDirectory \o "'",
               value |-> FALSE, w |-> Logged(context.w, << "rm", targetDirectory >>) ]
        ELSE [ err |-> "", value |-> TRUE,
               w |-> syncProjectSandboxRemove(deleted, context.projectID,
                                              context.primaryWorktree, targetDirectory) ]

\* removeListed that deletes the branch of the worktree whatever the request says
removeListedWithBranch(context, matchedEntry, removed, branchName, deleteLocalBranch) ==
    LET branchDeleted == IF branchName # ""
                         THEN GitBranchDelete(removed.w, branchName)
                         ELSE [success |-> TRUE, message |-> "", w |-> removed.w]
    IN  IF ~removed.success THEN [err |-> removed.message, value |-> FALSE, w |-> removed.w]
        ELSE IF ~branchDeleted.success
        THEN [err |-> branchDeleted.message, value |-> FALSE, w |-> branchDeleted.w]
        ELSE [ err |-> "", value |-> TRUE,
               w |-> syncProjectSandboxRemove(branchDeleted.w, context.projectID,
                                              context.primaryWorktree, matchedEntry.worktree) ]

\* The target is the worktree of matchedEntry; removed is the result of `worktree remove`.
removeListed(context, matchedEntry, removed, branchName, deleteLocalBranch) ==
    LET branchDeleted == IF deleteLocalBranch /\ branchName # ""
                         THEN GitBranchDelete(removed.w, branchName)
                         ELSE [success |-> TRUE, message |-> "", w |-> removed.w]
    IN  IF ~removed.success THEN [err |-> removed.message, value |-> FALSE, w |-> removed.w]
        ELSE IF ~branchDeleted.success
        THEN [err |-> branchDeleted.message, value |-> FALSE, w |-> branchDeleted.w]
        ELSE [ err |-> "", value |-> TRUE,
               w |-> syncProjectSandboxRemove(branchDeleted.w, context.projectID,
                                              context.primaryWorktree, matchedEntry.worktree) ]

removeEntry(context, targetDirectory, matchedEntry, deleteLocalBranch) ==
    IF matchedEntry = Null THEN removeUnlisted(context, targetDirectory)
    ELSE removeListed(context, matchedEntry, GitWorktreeRemove(context.w, matchedEntry.worktree),
                      cleanBranchName(Trim(OrElse(matchedEntry.branchRef, matchedEntry.branch))),
                      deleteLocalBranch)

\* removeWorktree once the project context is resolved.
removeInContext(W, context, targetDirectory, deleteLocalBranch) ==
    IF targetDirectory = ""
    THEN [err |-> "Worktree directory is required", value |-> FALSE, w |-> W]
    ELSE IF context.err # "" THEN [err |-> context.err, value |-> FALSE, w |-> context.w]
    ELSE IF canonicalPath(context.w, targetDirectory) = canonicalPath(context.w, context.primaryWorktree)
    THEN [err |-> "Cannot remove the primary workspace", value |-> FALSE, w |-> context.w]
    ELSE removeEntry(context, targetDirectory, findWorktreeEntry(context.w, targetDirectory),
                     deleteLocalBranch)

removeWorktree(W, directory, input) ==
    removeInContext(W, resolveWorktreeProjectContext(W, directory),
                    normalizeDirectoryPath(input.directory), input.deleteLocalBranch = TRUE)

(***************************************************************************)
(* The process executor and the merge/rebase conflict controller.          *)
(***************************************************************************)
\* execGit that resolves a failed spawn with the output captured so far
execGitLeaky(proc) ==
    [ stdout |-> proc.stdout,
      stderr |-> IF proc.kind \in {"error", "env"} THEN proc.message ELSE proc.stderr,
      exitCode |-> IF proc.kind \in {"error", "env"} THEN 1
                   ELSE IF proc.kind = "exit" THEN proc.code ELSE 0 ]

\* execGit: what the promise resolves with.  proc.kind is "exit" when the subprocess
\* exited with status proc.code, "signal" when a signal ended it (the close event then
\* carries no exit status), "error" when the subprocess emitted an error (it could not be
\* spawned) and "env" when buildGitEnv or spawn threw; proc.message is the message of
\* that error, proc.stdout and proc.stderr what the streams had delivered.
execGit(proc) ==
    IF proc.kind \in {"error", "env"}
    THEN [stdout |-> "", stderr |-> proc.message, exitCode |-> 1]
    ELSE [ stdout |-> proc.stdout,
           stderr |-> proc.stderr,
           exitCode |-> IF proc.kind = "exit" THEN proc.code ELSE 0 ]

\* s.toLowerCase()
UpperCase == "ABCDEFGHIJKLMNOPQRSTUVWXYZ"

LowerCase == "abcdefghijklmnopqrstuvwxyz"

RECURSIVE toLowerCase(_)
toLowerCase(s) ==
    IF s = "" THEN ""
    ELSE LET c == CharAt(s, 0)
             at == IndexOf(UpperCase, c)
         IN  (IF at >= 0 THEN CharAt(LowerCase, at) ELSE c) \o toLowerCase(Substring(s, 1))

\* s.split('\n')
RECURSIVE SplitLines(_)
SplitLines(s) ==
    LET at == IndexOf(s, "\n")
    IN  IF at < 0 THEN << s >>
        ELSE << Slice(s, 0, at) >> \o SplitLines(Substring(s, at + 1))

\* The files of the UU lines only
conflictFilesUU(statusResult) ==
    LET lines == SplitLines(statusResult.stdout)
        unmerged == SelectSeq(lines, LAMBDA line : StartsWith(line, "UU"))
    IN  [i \in 1..Len(unmerged) |-> Trim(Substring(unmerged[i], 3))]

\* The conflicting files, from the output of `git status --porcelain`.
conflictFilesOf(statusResult) ==
    LET lines == SplitLines(statusResult.stdout)
        unmerged == SelectSeq(lines, LAMBDA line :
                        StartsWith(line, "UU") \/ StartsWith(line, "AA") \/ StartsWith(line, "DD"))
    IN  [i \in 1..Len(unmerged) |-> Trim(Substring(unmerged[i], 3))]

\* The shared body of rebase, merge, continueRebase and continueMerge: gitResult is the
\* resolved execGit of the command, statusResult that of `git status --porcelain`.
conflictOutcome(gitResult, statusResult, isConflict, fallbackMessage) ==
    IF gitResult.exitCode = 0
    THEN [threw |-> FALSE, success |-> TRUE, conflict |-> FALSE, conflictFiles |-> << >>, message |-> ""]
    ELSE IF isConflict
    THEN [ threw |-> FALSE, success |-> FALSE, conflict |-> TRUE,
           conflictFiles |-> conflictFilesOf(statusResult), message |-> "" ]
    ELSE [ threw |-> TRUE, success |-> FALSE, conflict |-> FALSE, conflictFiles |-> << >>,
           message |-> OrElse(gitResult.stderr, fallbackMessage) ]

\* One rule for merge and rebase alike
anyConflictPhrase(output) ==
    Includes(output, "conflict") \/ Includes(output, "could not apply")
        \/ Includes(output, "automatic merge failed")

rebaseIsConflict(output) ==
    Includes(output, "conflict") \/ Includes(output, "could not apply") \/ Includes(output, "merge conflict")

rebase(proc, statusProc) ==
    LET gitResult == execGit(proc)
        output == toLowerCase(gitResult.stdout \o gitResult.stderr)
    IN  conflictOutcome(gitResult, execGit(statusProc), rebaseIsConflict(output), "Rebase failed")

mergeIsConflict(output) ==
    Includes(output, "conflict") \/ Includes(output, "merge conflict") \/ Includes(output, "automatic merge failed")

merge(proc, statusProc) ==
    LET gitResult == execGit(proc)
        output == toLowerCase(gitResult.stdout \o gitResult.stderr)
    IN  conflictOutcome(gitResult, execGit(statusProc), mergeIsConflict(output), "Merge failed")

continueIsConflict(output) ==
    Includes(output, "conflict") \/ Includes(output, "needs merge") \/ Includes(output, "unmerged")

continueRebase(proc, statusProc) ==
    LET gitResult == execGit(proc)
        output == toLowerCase(gitResult.stdout \o gitResult.stderr)
    IN  conflictOutcome(gitResult, execGit(statusProc), continueIsConflict(output), "Continue rebase failed")

continueMerge(proc, statusProc) ==
    LET gitResult == execGit(proc)
        output == toLowerCase(gitResult.stdout \o gitResult.stderr)
    IN  conflictOutcome(gitResult, execGit(statusProc), continueIsConflict(output), "Continue merge failed")

(***************************************************************************)
(* Callers.  A call is one step; its outcome stays in result until the     *)
(* caller has taken it (Return).                                           *)
(***************************************************************************)
\* Worktrees `worktree list` may hold, the primary one included.
MaxWorktrees == 2

\* Start-script tasks that may be scheduled and not yet run.
MaxTimers == 1

ProjectId == "a3f"

\* A registered sandbox whose directory and worktree record are gone.
StalePath == "/data/opencode/worktree/a3f/gone"

\* A directory outside the repository.
OutsidePath == "/elsewhere"

RemoteOptions ==
    { [setUpstream |-> FALSE, upstreamRemote |-> "", upstreamBranch |-> "",
       ensureRemoteName |-> "", ensureRemoteUrl |-> ""],
      [setUpstream |-> TRUE, upstreamRemote |-> "", upstreamBranch |-> "",
       ensureRemoteName |-> "", ensureRemoteUrl |-> ""],
      [setUpstream |-> TRUE, upstreamRemote |-> "origin", upstreamBranch |-> "feat",
       ensureRemoteName |-> "", ensureRemoteUrl |-> ""],
      [setUpstream |-> TRUE, upstreamRemote |-> "fork", upstreamBranch |-> "feat",
       ensureRemoteName |-> "", ensureRemoteUrl |-> ""],
      [setUpstream |-> FALSE, upstreamRemote |-> "", upstreamBranch |-> "",
       ensureRemoteName |-> "fork", ensureRemoteUrl |-> ""],
      [setUpstream |-> FALSE, upstreamRemote |-> "", upstreamBranch |-> "",
       ensureRemoteName |-> "origin", ensureRemoteUrl |-> "u1"],
      [setUpstream |-> TRUE, upstreamRemote |-> "fork", upstreamBranch |-> "feat",
       ensureRemoteName |-> "fork", ensureRemoteUrl |-> "u1"] }

NewInputs ==
    { [mode |-> "new", worktreeName |-> "demo", branchName |-> b, existingBranch |-> "",
       startRef |-> s] @@ o :
        b \in {"", "feat", "main"}, s \in {"", "origin/feat", "fork/feat", "nope"},
        o \in RemoteOptions }

ExistingInputs ==
    { [mode |-> "existing", worktreeName |-> "demo", branchName |-> b, existingBranch |-> e,
       startRef |-> ""] @@ o :
        b \in {"", "topic"}, e \in {"main", "feat", "origin/feat", "nope"},
        o \in RemoteOptions }

ValidateInputs == NewInputs \cup ExistingInputs

\* The requests createWorktree is called with.
CreateInputs ==
    { i \in ValidateInputs :
        \/ /\ i.mode = "new"
           /\ \/ i.startRef = "" /\ ~i.setUpstream /\ i.ensureRemoteName = ""
              \/ i.branchName = "" /\ i.startRef \in {"origin/feat", "nope"} /\ i.setUpstream
                    /\ i.upstreamRemote = "" /\ i.ensureRemoteName = ""
              \/ i.branchName = "" /\ i.startRef = "" /\ i.setUpstream /\ i.upstreamRemote = ""
        \/ /\ i.mode = "existing"
           /\ \/ i.branchName = "" /\ ~i.setUpstream /\ i.ensureRemoteName = ""
              \/ i.branchName = "topic" /\ i.existingBranch = "origin/feat"
                    /\ i.ensureRemoteName = "origin" }

\* The directory a call resolves its context from, with the request.
ValidateCalls ==
    { << PrimaryPath, i >> : i \in ValidateInputs }
        \cup { << OutsidePath, i >> : i \in {j \in ValidateInputs : j.mode = "new" /\ j.branchName = ""
                                                /\ j.startRef = "" /\ ~j.setUpstream
                                                /\ j.ensureRemoteName = ""} }

CreateCalls ==
    { << PrimaryPath, i >> : i \in CreateInputs }
        \cup { << OutsidePath, i >> : i \in {j \in CreateInputs : j.mode = "new" /\ j.branchName = ""
                                                /\ j.startRef = "" /\ ~j.setUpstream} }

WorktreePaths == { worktrees[i].worktree : i \in 1..Len(worktrees) }

RemoveCalls ==
    { << PrimaryPath, [directory |-> t, deleteLocalBranch |-> d] >> :
        t \in WorktreePaths \cup {PrimaryPath \o "/", LinkPath, StalePath, " " \o StalePath},
        d \in BOOLEAN }
      \cup { << c, [directory |-> t, deleteLocalBranch |-> FALSE] >> :
                c \in (WorktreePaths \cup {OutsidePath}) \ {PrimaryPath},
                t \in WorktreePaths \cup {StalePath} }

Init ==
    /\ marker \in {"", ProjectId}
    /\ roots = {"b71", ProjectId}
    /\ heads \in {{"main"}, {"main", "feat"}}
    /\ remoteRefs \in {{}, {"origin/feat"}}
    /\ remotes = [n \in {"origin"} |-> ServerUrl]
    /\ worktrees = << [worktree |-> PrimaryPath, branchRef |-> "refs/heads/main"] >>
    /\ dirs = {PrimaryPath}
    /\ project \in { Null,
                     [ id |-> ProjectId, worktree |-> PrimaryPath, vcs |-> "git",
                       sandboxes |-> << StalePath >> ] }
    /\ branchConfig = [b \in {} |-> Null]
    /\ gitConfig = NoIdentity
    /\ repository = FreshRepository
    /\ gitApi = NoGitApi
    /\ gitExtensionEnabled = FALSE
    /\ vscodeGit = EnabledExtension
    /\ calls = NoCalls
    /\ timers = {}
    /\ result = Null

ValidateCall ==
    /\ result = Null
    /\ \E call \in ValidateCalls :
        \E v \in {validateWorktreeCreate(World, call[1], call[2])} :
            /\ Install(v.w)
            /\ UNCHANGED calls
            /\ result' = [ op |-> "validate", directory |-> call[1], input |-> call[2],
                           before |-> World, ok |-> v.ok, errors |-> v.errors,
                           resolved |-> v.resolved, log |-> v.w.log ]

\* A call that would take the repository beyond MaxWorktrees worktrees, or the scheduled
\* start-script tasks beyond MaxTimers, is not made.
CreateCall ==
    /\ result = Null
    /\ \E call \in CreateCalls, storeOk \in BOOLEAN :
        \E candidate \in createCandidates(World, call[1], call[2]) :
            \E c \in {createWorktree([World EXCEPT !.storeOk = storeOk], call[1], call[2], candidate)} :
                /\ Len(c.w.worktrees) <= MaxWorktrees
                /\ Cardinality(timers \cup c.w.queued) <= MaxTimers
                /\ Install(c.w)
                /\ UNCHANGED calls
                /\ result' = [ op |-> "create", directory |-> call[1], input |-> call[2],
                               before |-> World, storeOk |-> storeOk,
                               err |-> c.err, value |-> c.value,
                               localBranch |-> c.localBranch, log |-> c.w.log ]

RemoveCall ==
    /\ result = Null
    /\ \E call \in RemoveCalls, storeOk \in BOOLEAN :
        \E r \in {removeWorktree([World EXCEPT !.storeOk = storeOk], call[1], call[2])} :
            /\ Install(r.w)
            /\ UNCHANGED calls
            /\ result' = [ op |-> "remove", directory |-> call[1], input |-> call[2],
                           before |-> World, storeOk |-> storeOk,
                           err |-> r.err, value |-> r.value, log |-> r.w.log ]

Return ==
    /\ result # Null
    /\ result' = Null
    /\ UNCHANGED << marker, roots, heads, remoteRefs, remotes, worktrees, dirs, project,
                    branchConfig, gitConfig, repository, extensionVars, calls, timers >>

\* A scheduled start-script task runs to its end.  The commands run in the new worktree
\* and their failures are logged; nothing of the task reaches the service.
StartScripts ==
    /\ \E task \in timers : timers' = timers \ {task}
    /\ UNCHANGED << marker, roots, heads, remoteRefs, remotes, worktrees, dirs, project,
                    branchConfig, gitConfig, repository, extensionVars, calls, result >>

Next == ValidateCall \/ CreateCall \/ RemoveCall \/ StartScripts \/ Return

Spec == Init /\ [][Next]_vars

(***************************************************************************)
(* Callers of merge, rebase, continueMerge and continueRebase.  The git    *)
(* subprocess and the `git status --porcelain` subprocess end as the       *)
(* environment decides.                                                    *)
(***************************************************************************)
\* Entries `git status --porcelain` may print.
MaxStatus == 2

StatusCodes == {"UU", "AA", "DD", "AU", "??"}

StatusPaths == {"x.txt", "UU"}

StatusEntries == [xy : StatusCodes, path : StatusPaths]

StatusLists == UNION { [1..n -> StatusEntries] : n \in 0..MaxStatus }

\* The porcelain text of a status: one line "XY <path>" per entry.
RECURSIVE RenderStatus(_)
RenderStatus(entries) ==
    IF entries = << >> THEN ""
    ELSE entries[1].xy \o " " \o entries[1].path \o "\n" \o RenderStatus(Tail(entries))

\* What git may print: << stdout, stderr >>.
GitOutputs ==
    { << "", "" >>,
      << "Already up to date.", "" >>,
      << "CONFLICT (content): Merge conflict in x.txt", "" >>,
      << "Automatic merge failed", "" >>,
      << "", "error: could not apply 1a2b" >>,
      << "x.txt: needs merge", "" >>,
      << "", "error: Unmerged files" >>,
      << "CON", "FLICT" >>,
      << "", "fatal: bad revision" >> }

GitProcs ==
    { [kind |-> "exit", code |-> c, stdout |-> o[1], stderr |-> o[2], message |-> ""] :
        c \in {0, 1, 128}, o \in GitOutputs }
      \cup { [kind |-> "signal", code |-> 0, stdout |-> o[1], stderr |-> o[2], message |-> ""] :
                o \in {<< "", "" >>, << "CONFLICT (content): Merge conflict in x.txt", "" >>} }
      \cup { [ kind |-> "error", code |-> 0, stdout |-> "", stderr |-> "",
                message |-> "spawn git ENOENT" ] }

StatusProcs ==
    { [kind |-> "exit", code |-> 0, stdout |-> RenderStatus(entries), stderr |-> "",
       message |-> "", entries |-> entries] : entries \in StatusLists }
      \cup { [kind |-> "error", code |-> 0, stdout |-> "", stderr |-> "",
              message |-> "spawn git ENOENT", entries |-> << >>] }

InitMerge ==
    /\ marker = ProjectId
    /\ roots = {ProjectId}
    /\ heads = {"main", "feat"}
    /\ remoteRefs = {}
    /\ remotes = [n \in {"origin"} |-> ServerUrl]
    /\ worktrees = << [worktree |-> PrimaryPath, branchRef |-> "refs/heads/main"] >>
    /\ dirs = {PrimaryPath}
    /\ project = Null
    /\ branchConfig = [b \in {} |-> Null]
    /\ gitConfig = NoIdentity
    /\ repository = FreshRepository
    /\ gitApi = NoGitApi
    /\ gitExtensionEnabled = FALSE
    /\ vscodeGit = EnabledExtension
    /\ calls = NoCalls
    /\ timers = {}
    /\ result = Null

Controlled(op, proc, statusProc, outcome) ==
    /\ result' = [op |-> op, proc |-> proc, statusProc |-> statusProc, outcome |-> outcome]
    /\ UNCHANGED << marker, roots, heads, remoteRefs, remotes, worktrees, dirs, project,
                    branchConfig, gitConfig, repository, extensionVars, calls, timers >>

MergeCall ==
    /\ result = Null
    /\ \E proc \in GitProcs, statusProc \in StatusProcs :
        Controlled("merge", proc, statusProc, merge(proc, statusProc))

RebaseCall ==
    /\ result = Null
    /\ \E proc \in GitProcs, statusProc \in StatusProcs :
        Controlled("rebase", proc, statusProc, rebase(proc, statusProc))

ContinueMergeCall ==
    /\ result = Null
    /\ \E proc \in GitProcs, statusProc \in StatusProcs :
        Controlled("continueMerge", proc, statusProc, continueMerge(proc, statusProc))

ContinueRebaseCall ==
    /\ result = Null
    /\ \E proc \in GitProcs, statusProc \in StatusProcs :
        Controlled("continueRebase", proc, statusProc, continueRebase(proc, statusProc))

NextMerge == MergeCall \/ RebaseCall \/ ContinueMergeCall \/ ContinueRebaseCall \/ Return

SpecMerge == InitMerge /\ [][NextMerge]_vars

(***************************************************************************)
(* The pure helpers, called on their own.                                  *)
(***************************************************************************)
\* slugifyWorktreeName of the UI: the steps of slugWorktreeName, the hyphens at both
\* ends removed by one replace.
slugifyWorktreeName(value) ==
    LET s1 == Trim(value)
        s2 == StripPrefix(s1, "refs/heads/")
        s3 == StripPrefix(s2, "heads/")
        s4 == ReplaceRuns(s3, WhiteSpace, TRUE, "-")
        s5 == StripTrailing(StripLeading(s4, {"/"}), {"/"})
        s6 == ReplaceRuns(s5, {"/"}, TRUE, "-")
        s7 == ReplaceRuns(s6, SlugChars, FALSE, "-")
        s8 == ReplaceRuns(s7, {"-"}, TRUE, "-")
        s9 == StripTrailing(StripLeading(s8, {"-"}), {"-"})
    IN  Slice(s9, 0, SlugMaxLen)

\* The longest run of one letter in a name to slug.
MaxSlugPad == 80

RECURSIVE Pad(_)
Pad(n) == IF n = 0 THEN "" ELSE IF n = 1 THEN "a" ELSE Pad(n \div 2) \o Pad(n - n \div 2)

SlugPads == {0, 1} \cup { n \in (MaxSlugPad - 2)..MaxSlugPad : n >= 0 }

\* The names given to the slug functions.
SlugInputs ==
    { pre \o Pad(n) \o mid \o post :
        pre \in {"", "refs/heads/", "heads/", "  ", "-", "//"},
        n \in SlugPads,
        mid \in {"", "-", "/", " ", "--", "!", "._"},
        post \in {"", "b", "-", "/ "} }

InitPure ==
    /\ marker = ProjectId
    /\ roots = {ProjectId}
    /\ heads = {"main"}
    /\ remoteRefs = {}
    /\ remotes = [n \in {"origin"} |-> ServerUrl]
    /\ worktrees = << [worktree |-> PrimaryPath, branchRef |-> "refs/heads/main"] >>
    /\ dirs = {PrimaryPath}
    /\ project = Null
    /\ branchConfig = [b \in {} |-> Null]
    /\ gitConfig = NoIdentity
    /\ repository = FreshRepository
    /\ gitApi = NoGitApi
    /\ gitExtensionEnabled = FALSE
    /\ vscodeGit = EnabledExtension
    /\ calls = NoCalls
    /\ timers = {}
    /\ result = Null

Computed(r) ==
    /\ result = Null
    /\ result' = r
    /\ UNCHANGED << marker, roots, heads, remoteRefs, remotes, worktrees, dirs, project,
                    branchConfig, gitConfig, repository, extensionVars, calls, timers >>

SlugCall ==
    \E value \in SlugInputs :
        Computed([ op |-> "slug", value |-> value,
                   service |-> slugWorktreeName(value), ui |-> slugifyWorktreeName(value) ])

\* The strings given to parseRemoteBranchRef.
ParseInputs ==
    { pre \o a \o sep \o b \o post :
        pre \in {"", " ", "refs/remotes/", "remotes/", "refs/", "/"},
        a \in {"", "origin", "o"},
        sep \in {"", "/"},
        b \in {"", "feat", "feature/x", "/x", "x/"},
        post \in {"", " ", "/"} }

ParseCall ==
    \E value \in ParseInputs :
        Computed([op |-> "parse", value |-> value, parsed |-> parseRemoteBranchRef(value)])

\* The subprocesses execGit may run: what the streams delivered and how it ended.
ExecProcs ==
    { [kind |-> "exit", code |-> c, stdout |-> o[1], stderr |-> o[2], message |-> ""] :
        c \in {0, 1, 2, 128, 129, 255}, o \in GitOutputs }
      \cup { [kind |-> "signal", code |-> 0, stdout |-> o[1], stderr |-> o[2], message |-> ""] :
                o \in GitOutputs }
      \cup { [kind |-> "error", code |-> 0, stdout |-> o[1], stderr |-> o[2], message |-> m] :
                o \in GitOutputs, m \in {"spawn git ENOENT", "spawn EACCES", "kill EPERM"} }
      \cup { [kind |-> "env", code |-> 0, stdout |-> "", stderr |-> "", message |-> m] :
                m \in {"EMFILE: too many open files", "spawn ENOTDIR"} }

ExecCall ==
    \E proc \in ExecProcs :
        Computed([op |-> "exec", proc |-> proc, outcome |-> execGit(proc)])

NextPure == SlugCall \/ ParseCall \/ ExecCall \/ Return

SpecPure == InitPure /\ [][NextPure]_vars

(***************************************************************************)
(* The environment of the subprocesses: git, and the start commands.       *)
(***************************************************************************)
\* process.env, a variable None while it is not set
AmbientEnvs ==
    [ GIT_TERMINAL_PROMPT : {None, Some("1"), Some("0")},
      SSH_AUTH_SOCK : {None, Some(""), Some("  "), Some("/tmp/agent.sock"),
                       Some(" /tmp/agent.sock")} ]

Platforms == {"linux", "win32"}

\* path.join(os.homedir(), '.gnupg', 'S.gpg-agent.ssh')
GpgSock == pathJoin(pathJoin(HomePath, ".gnupg"), "S.gpg-agent.ssh")

\* What the probes of the agent socket find: whether the socket of gpg-agent under the
\* home directory is there, what `gpgconf --list-dirs agent-ssh-socket` prints before
\* and after `gpgconf --launch gpg-agent` ("" when no gpgconf can be run), and whether
\* the path printed is a socket.
AgentProbes ==
    [ gpgSock : BOOLEAN,
      listed : {"", "/run/gnupg/S.ssh\n"},
      listedIsSocket : BOOLEAN,
      relisted : {"", "/run/gnupg/S.ssh\n"},
      relistedIsSocket : BOOLEAN ]

\* buildGitEnv that leaves a prompt setting of the ambient environment alone
buildGitEnvAmbient(env, platform, probe) ==
    IF env.GIT_TERMINAL_PROMPT = None THEN [env EXCEPT !.GIT_TERMINAL_PROMPT = Some("0")]
    ELSE env

resolveSshAuthSock(env, platform, probe) ==
    LET existing == Trim(IF env.SSH_AUTH_SOCK = None THEN "" ELSE env.SSH_AUTH_SOCK[1])
        candidate == Trim(probe.listed)
        retried == Trim(probe.relisted)
    IN  IF existing # "" THEN Some(existing)
        ELSE IF platform = "win32" THEN None
        ELSE IF probe.gpgSock THEN Some(GpgSock)
        ELSE IF candidate # "" /\ probe.listedIsSocket THEN Some(candidate)
        ELSE IF candidate # "" /\ retried # "" /\ probe.relistedIsSocket THEN Some(retried)
        ELSE None

buildGitEnv(env, platform, probe) ==
    LET withPrompt == [env EXCEPT !.GIT_TERMINAL_PROMPT = Some("0")]
        resolved == resolveSshAuthSock(env, platform, probe)
    IN  IF withPrompt.SSH_AUTH_SOCK = None \/ Trim(withPrompt.SSH_AUTH_SOCK[1]) = ""
        THEN IF resolved # None THEN [withPrompt EXCEPT !.SSH_AUTH_SOCK = resolved]
             ELSE withPrompt
        ELSE withPrompt

\* The spawn of execGit: the program, its environment, and what the promise resolves with
spawnGit(env, platform, probe, proc) ==
    [ spawned |-> TRUE, program |-> "git", env |-> buildGitEnv(env, platform, probe),
      success |-> execGit(proc).exitCode = 0 ]

\* runWorktreeStartCommand: no subprocess for a blank command, otherwise the shell of
\* the platform with the environment of buildGitEnv; ended tells whether execFile resolved
runWorktreeStartCommand(command, env, platform, probe, ended) ==
    IF Trim(command) = ""
    THEN [spawned |-> FALSE, program |-> "", env |-> env, success |-> TRUE]
    ELSE [ spawned |-> TRUE, program |-> IF platform = "win32" THEN "cmd" ELSE "bash",
           env |-> buildGitEnv(env, platform, probe), success |-> ended ]

\* How a git subprocess of this specification ends
SpawnProcs ==
    { [kind |-> "exit", code |-> c, stdout |-> "", stderr |-> "", message |-> ""] : c \in {0, 128} }
      \cup { [kind |-> "error", code |-> 0, stdout |-> "", stderr |-> "",
              message |-> "spawn git ENOENT"] }

Spawned(kind, ambient, platform, probe, spawn) ==
    Computed([ op |-> "spawn", kind |-> kind, ambient |-> ambient, platform |-> platform,
               probe |-> probe, spawn |-> spawn ])

ExecGitSpawn ==
    \E ambient \in AmbientEnvs, platform \in Platforms, probe \in AgentProbes, proc \in SpawnProcs :
        Spawned("git", ambient, platform, probe, spawnGit(ambient, platform, probe, proc))

StartCommandSpawn ==
    \E ambient \in AmbientEnvs, platform \in Platforms, probe \in AgentProbes,
       command \in {"", " ", "npm install"}, ended \in BOOLEAN :
        Spawned("start", ambient, platform, probe,
                runWorktreeStartCommand(command, ambient, platform, probe, ended))

NextEnv == ExecGitSpawn \/ StartCommandSpawn \/ Return

SpecEnv == InitPure /\ [][NextEnv]_vars

(***************************************************************************)
(* The git identity of a repository.                                       *)
(***************************************************************************)
\* The characters escapeSshKeyPath rejects
DangerousChars ==
    { "`", "$", "\\", "!", "\"", "'", ";", "&", "|", "<", ">", "(", ")", "{", "}", "[", "]",
      "*", "?", "#", "~" }

\* dangerousChars.test(s)
HasDangerousChar(s) == \E i \in 0..(Len(s) - 1) : CharAt(s, i) \in DangerousChars

\* s.replace(/c/g, rep) for one character c
ReplaceChar(s, c, rep) ==
    Join([i \in 1..Len(s) |-> IF CharAt(s, i - 1) = c THEN rep ELSE CharAt(s, i - 1)], 1, Len(s))

\* "C:/path" becomes "/c/path"
msysPath(unixPath) ==
    IF /\ Len(unixPath) >= 3
       /\ Includes(UpperCase \o LowerCase, CharAt(unixPath, 0))
       /\ SubSeq(unixPath, 2, 3) = ":/"
    THEN "/" \o toLowerCase(CharAt(unixPath, 0)) \o Substring(unixPath, 2)
    ELSE unixPath

\* escapeSshKeyPath that quotes the path without looking at its characters
quoteSshKeyPath(sshKeyPath, platform) == [err |-> "", value |-> "'" \o sshKeyPath \o "'"]

\* err is the message of the error thrown, "" when the path is returned quoted
escapeSshKeyPath(sshKeyPath, platform) ==
    IF HasDangerousChar(sshKeyPath)
    THEN [err |-> "SSH key path contains invalid characters: " \o sshKeyPath, value |-> ""]
    ELSE IF platform = "win32"
    THEN [err |-> "", value |-> "'" \o msysPath(ReplaceChar(sshKeyPath, "\\", "/")) \o "'"]
    ELSE [err |-> "", value |-> "'" \o ReplaceChar(sshKeyPath, "'", "'\\''") \o "'"]

buildSshCommand(sshKeyPath, platform) ==
    [ err |-> escapeSshKeyPath(sshKeyPath, platform).err,
      value |-> IF escapeSshKeyPath(sshKeyPath, platform).err # "" THEN None
                ELSE Some("ssh -i " \o escapeSshKeyPath(sshKeyPath, platform).value
                            \o " -o IdentitiesOnly=yes") ]

\* The configuration keys in the order setGitIdentity writes them, with the values;
\* core.sshCommand only when a command was built.
identityWrites(userName, userEmail, sshCommand) ==
    << << "userName", userName >>, << "userEmail", userEmail >> >>
        \o (IF sshCommand # None THEN << << "sshCommand", sshCommand[1] >> >> ELSE << >>)

\* repo.setConfig for each write in turn; the write numbered failAt throws and ends the
\* sequence.  I is [config, log].
RECURSIVE adapterWrites(_, _, _, _)
adapterWrites(I, writes, k, failAt) ==
    IF k > Len(writes) THEN [I EXCEPT !.thrown = FALSE]
    ELSE IF k = failAt
    THEN [I EXCEPT !.thrown = TRUE, !.log = Append(@, << "setConfig throws", writes[k][1] >>)]
    ELSE adapterWrites([I EXCEPT !.config = [@ EXCEPT ![writes[k][1]] = Some(writes[k][2])],
                                 !.log = Append(@, << "setConfig", writes[k][1], writes[k][2] >>)],
                       writes, k + 1, failAt)

\* execGit(['config', key, value]) for each write in turn; the one numbered failAt exits
\* with a nonzero status and writes nothing, which the caller does not look at.
RECURSIVE cliWrites(_, _, _, _)
cliWrites(I, writes, k, failAt) ==
    IF k > Len(writes) THEN I
    ELSE cliWrites([I EXCEPT !.config = IF k = failAt THEN @
                                         ELSE [@ EXCEPT ![writes[k][1]] = Some(writes[k][2])],
                             !.log = Append(@, << "git config", writes[k][1], writes[k][2] >>)],
                   writes, k + 1, failAt)

\* setGitIdentity once the SSH command is built.  call.repo tells whether getRepository
\* gave a repository.
setIdentityWith(config, call, sshCommand, adapted) ==
    IF sshCommand.err # ""
    THEN [err |-> sshCommand.err, value |-> Null, sshCommand |-> None, config |-> config, log |-> << >>]
    ELSE IF call.repo /\ ~adapted.thrown
    THEN [ err |-> "", value |-> [success |-> TRUE], sshCommand |-> sshCommand.value,
           config |-> adapted.config, log |-> adapted.log ]
    ELSE [ err |-> "", value |-> [success |-> TRUE], sshCommand |-> sshCommand.value ]
            @@ [ f \in {"config", "log"} |->
                    cliWrites(IF call.repo THEN adapted ELSE [config |-> config, log |-> << >>, thrown |-> FALSE],
                              identityWrites(call.userName, call.userEmail, sshCommand.value),
                              1, call.cliFailAt)[f] ]

setIdentityBuilt(config, call, sshCommand) ==
    setIdentityWith(config, call, sshCommand,
        IF sshCommand.err # "" \/ ~call.repo THEN Null
        ELSE adapterWrites([config |-> config, log |-> << >>, thrown |-> FALSE],
                           identityWrites(call.userName, call.userEmail, sshCommand.value),
                           1, call.adapterFailAt))

setGitIdentity(config, call) ==
    setIdentityBuilt(config, call,
        IF call.sshKey # ""
        THEN buildSshCommand(call.sshKey, call.platform)
        ELSE [err |-> "", value |-> None])

\* The key paths given to setGitIdentity, "" for a call without one.
SshKeys ==
    { "", "/home/dev/.ssh/id_ed25519", "C:/Users/dev/.ssh/id", "; rm -rf /",
      "/k/$(id)", "/k/it's", "C:\\Users\\dev\\id", "/k/a b" }

\* The step a sequence of configuration writes may fail at, 0 for none.
MaxWrites == 3

IdentityCalls ==
    [ repo : BOOLEAN, userName : {"Ann", ""}, userEmail : {"ann@x.io"}, sshKey : SshKeys,
      platform : {"linux", "win32"}, adapterFailAt : 0..MaxWrites, cliFailAt : 0..MaxWrites ]

OldIdentity ==
    [ userName |-> Some("Old"), userEmail |-> Some("old@x.io"),
      sshCommand |-> Some("ssh -i '/k/old' -o IdentitiesOnly=yes") ]

InitIdentity ==
    /\ marker = ProjectId
    /\ roots = {ProjectId}
    /\ heads = {"main"}
    /\ remoteRefs = {}
    /\ remotes = [n \in {"origin"} |-> ServerUrl]
    /\ worktrees = << [worktree |-> PrimaryPath, branchRef |-> "refs/heads/main"] >>
    /\ dirs = {PrimaryPath}
    /\ project = Null
    /\ branchConfig = [b \in {} |-> Null]
    /\ gitConfig \in {NoIdentity, OldIdentity}
    /\ repository = FreshRepository
    /\ gitApi = NoGitApi
    /\ gitExtensionEnabled = FALSE
    /\ vscodeGit = EnabledExtension
    /\ calls = NoCalls
    /\ timers = {}
    /\ result = Null

SetIdentityCall ==
    /\ result = Null
    /\ \E call \in IdentityCalls :
        \E s \in {setGitIdentity(gitConfig, call)} :
            /\ call.repo \/ call.adapterFailAt = 0
            /\ gitConfig' = s.config
            /\ result' = [ op |-> "setIdentity", call |-> call, before |-> gitConfig,
                           err |-> s.err, value |-> s.value, sshCommand |-> s.sshCommand,
                           log |-> s.log ]
            /\ UNCHANGED << worktreeVars, repository, extensionVars, calls, timers >>

NextIdentity == SetIdentityCall \/ Return

SpecIdentity == InitIdentity /\ [][NextIdentity]_vars

(***************************************************************************)
(* createWorktree calls in flight together, and the start-script tasks.    *)
(* A call runs in three stretches, each ending at an await: CallBegin (the *)
(* context and the candidate), CallPlan (the branch checks, up to the      *)
(* worktree-add arguments) and CallExec (from there to the scheduling of   *)
(* the start scripts); CallReturn is the return after `rev-parse HEAD`.    *)
(***************************************************************************)
\* Worktrees `worktree list` may hold while calls run together.
MaxRaceWorktrees == 3

\* The requests of the calls that run together.
RaceInput(mode, worktreeName, branchName, existingBranch, startCommand) ==
    [ mode |-> mode, worktreeName |-> worktreeName, branchName |-> branchName,
      existingBranch |-> existingBranch, startRef |-> "", setUpstream |-> FALSE,
      upstreamRemote |-> "", upstreamBranch |-> "", ensureRemoteName |-> "",
      ensureRemoteUrl |-> "", startCommand |-> startCommand ]

RaceInputs ==
    { RaceInput("new", n, b, "", "") : n \in {"demo", "other"}, b \in {"", "topic"} }
      \cup { RaceInput("new", "demo", "", "", "npm test") }
      \cup { RaceInput("existing", "demo", "", "feat", ""),
             RaceInput("existing", "other", "", "origin/fix", "") }

\* commands.start of the project's storage file, "" when there is none
ProjectStartCommands == {"", "npm install"}

\* How a start command may end: it succeeds, it fails, or running it throws.
CommandOutcomes == {"success", "failure", "throw"}

InitCalls ==
    /\ marker = ProjectId
    /\ roots = {ProjectId}
    /\ heads = {"main", "feat"}
    /\ remoteRefs = {"origin/fix"}
    /\ remotes = [n \in {"origin"} |-> ServerUrl]
    /\ worktrees = << [worktree |-> PrimaryPath, branchRef |-> "refs/heads/main"] >>
    /\ dirs = {PrimaryPath}
    /\ project = Null
    /\ branchConfig = [b \in {} |-> Null]
    /\ gitConfig = NoIdentity
    /\ repository = FreshRepository
    /\ gitApi = NoGitApi
    /\ gitExtensionEnabled = FALSE
    /\ vscodeGit = EnabledExtension
    /\ calls = NoCalls
    /\ timers = {}
    /\ result = Null

\* A call in flight: where it is, what it was asked, and what it has resolved so far.
CallAt(pc, input, context, candidate, plan, outcome) ==
    [ pc |-> pc, input |-> input, context |-> context, candidate |-> candidate,
      plan |-> plan, outcome |-> outcome ]

NoOutcome == [err |-> "", value |-> Null]

\* The plan without the world it was made in
PlanOf(plan) == [f \in (DOMAIN plan) \ {"w"} |-> plan[f]]

\* The context without the world it was resolved in
ContextOf(context) == [f \in (DOMAIN context) \ {"w"} |-> context[f]]

CallBegin(p) ==
    /\ calls[p] = Null
    /\ \E input \in RaceInputs :
        \E context \in {createContext(World, PrimaryPath)} :
            \E candidate \in candidatesIn(context, Trim(input.worktreeName),
                                IF InputMode(input) = "new" /\ cleanBranchName(Trim(input.branchName)) # ""
                                THEN cleanBranchName(Trim(input.branchName)) ELSE "") :
                /\ Install(context.w)
                /\ calls' = [calls EXCEPT ![p] =
                                CallAt("resolved", input, ContextOf(context), candidate,
                                       PlanOf([err |-> "", w |-> Null] @@ NoPlan), NoOutcome)]
    /\ UNCHANGED result

CallPlan(p) ==
    /\ calls[p] # Null
    /\ calls[p].pc = "resolved"
    /\ \E plan \in {createPlanIn(calls[p].context @@ [w |-> World], calls[p].input,
                                 calls[p].candidate,
                                 cleanBranchName(Trim(calls[p].input.branchName)),
                                 normalizeStartRef(calls[p].input.startRef),
                                 Trim(calls[p].input.ensureRemoteName),
                                 Trim(calls[p].input.ensureRemoteUrl))} :
        /\ Install(plan.w)
        /\ calls' = [calls EXCEPT ![p] =
                        [@ EXCEPT !.pc = IF plan.err # "" THEN "done" ELSE "planned",
                                  !.plan = PlanOf(plan),
                                  !.outcome = [err |-> plan.err, value |-> Null]]]
    /\ UNCHANGED result

\* A call that would take the repository beyond MaxRaceWorktrees worktrees, or the
\* scheduled tasks beyond MaxTimers, does not go on.
CallExec(p) ==
    /\ calls[p] # Null
    /\ calls[p].pc = "planned"
    /\ \E c \in {createExec(World, calls[p].plan, calls[p].input)} :
        /\ Len(c.w.worktrees) <= MaxRaceWorktrees
        /\ Cardinality(timers \cup c.w.queued) <= MaxTimers
        /\ Install(c.w)
        /\ calls' = [calls EXCEPT ![p] =
                        [@ EXCEPT !.pc = "done", !.outcome = [err |-> c.err, value |-> c.value]]]
    /\ UNCHANGED result

\* The call settles: its caller has the worktree or the error. Each of the MaxCalls
\* callers makes one call.
CallReturn(p) ==
    /\ calls[p] # Null
    /\ calls[p].pc = "done"
    /\ calls' = [calls EXCEPT ![p] = [@ EXCEPT !.pc = "returned"]]
    /\ UNCHANGED << worktreeVars, gitConfig, repository, extensionVars, timers, result >>

\* A task that would take the worktree back when its command does not succeed.
rollbackWorktree(W, task, outcome) ==
    IF outcome = "success" THEN W
    ELSE [W EXCEPT !.worktrees = SelectSeq(@, LAMBDA entry : entry.worktree # task.directory),
                   !.dirs = @ \ {task.directory}]

\* What the end of a start command does to the repository: the failure is logged, the
\* task goes on or stops, and nothing else is done.
afterStartCommand(W, task, outcome) == W

\* The task with its position changed, no task when it is over.
TaskAt(task, pc) == IF pc = "over" THEN {} ELSE {[task EXCEPT !.pc = pc]}

\* The timer fires: the project's start command is read and, if there is one, started;
\* otherwise the command of the request is started, if there is one.
TimerFire ==
    /\ \E task \in timers, projectStart \in ProjectStartCommands :
        /\ task.pc = "queued"
        /\ timers' = (timers \ {task}) \cup
                        TaskAt(task, IF projectStart # "" THEN "project"
                                     ELSE IF Trim(task.startCommand) # "" THEN "extra"
                                     ELSE "over")
    /\ UNCHANGED << worktreeVars, gitConfig, repository, extensionVars, calls, result >>

\* The project's start command ends: after a failure the task logs it and stops (the
\* position "failed" is the task at that warning), a throw is caught and logged by the
\* task ("threw").
ProjectStartEnds ==
    /\ \E task \in timers, outcome \in CommandOutcomes :
        /\ task.pc = "project"
        /\ InstallRepo(afterStartCommand(World, task, outcome))
        /\ timers' = (timers \ {task}) \cup
                        TaskAt(task, IF outcome = "failure" THEN "failed"
                                     ELSE IF outcome = "throw" THEN "threw"
                                     ELSE IF Trim(task.startCommand) # "" THEN "extra"
                                     ELSE "over")
    /\ UNCHANGED << gitConfig, repository, extensionVars, calls, result >>

ExtraStartEnds ==
    /\ \E task \in timers, outcome \in CommandOutcomes :
        /\ task.pc = "extra"
        /\ InstallRepo(afterStartCommand(World, task, outcome))
        /\ timers' = (timers \ {task}) \cup
                        TaskAt(task, IF outcome = "failure" THEN "failed"
                                     ELSE IF outcome = "throw" THEN "threw"
                                     ELSE "over")
    /\ UNCHANGED << gitConfig, repository, extensionVars, calls, result >>

\* The task is over once its warning is logged.
TaskEnds ==
    /\ \E task \in timers :
        /\ task.pc \in {"failed", "threw"}
        /\ timers' = timers \ {task}
    /\ UNCHANGED << worktreeVars, gitConfig, repository, extensionVars, calls, result >>

NextCalls ==
    \/ \E p \in 1..MaxCalls : CallBegin(p)
    \/ \E p \in 1..MaxCalls : CallPlan(p)
    \/ \E p \in 1..MaxCalls : CallExec(p)
    \/ \E p \in 1..MaxCalls : CallReturn(p)
    \/ TimerFire
    \/ ProjectStartEnds
    \/ ExtraStartEnds
    \/ TaskEnds

SpecCalls == InitCalls /\ [][NextCalls]_vars

\* The event loop runs every timer that is due, and every start command ends.
SpecCallsFair ==
    /\ SpecCalls
    /\ WF_vars(TimerFire)
    /\ WF_vars(ProjectStartEnds)
    /\ WF_vars(ExtraStartEnds)
    /\ WF_vars(TaskEnds)

(***************************************************************************)
(* The dual-path operations: each asks getRepository for the Structured    *)
(* Repository Adapter and runs the CLI when there is none (adapter         *)
(* "absent") or, for the operations that catch, when the adapter throws.   *)
(* R is the repository as git holds it; the adapter reads and changes the  *)
(* same repository.                                                        *)
(***************************************************************************)
TrackedFile == "a.txt"

\* The commits made in the clone, in the order they are made
LocalCommits == << "b2e8d13", "c93a7f5" >>

\* How many commits are made in the clone.
MaxCommits == 1

\* The commit `origin` has on main beyond the first one, and a.txt in it
RemoteCommit == "d40b6a2"

RemoteContent == "v2"

NextCommit(R) ==
    IF \E k \in 1..MaxCommits : k <= Len(LocalCommits) /\ LocalCommits[k] \notin DOMAIN R.history
    THEN LocalCommits[CHOOSE k \in 1..MaxCommits :
                        /\ k <= Len(LocalCommits)
                        /\ LocalCommits[k] \notin DOMAIN R.history
                        /\ \A j \in 1..(k - 1) : LocalCommits[j] \in DOMAIN R.history]
    ELSE ""

\* The commit and the commits it descends from
RECURSIVE Ancestors(_, _)
Ancestors(R, commit) ==
    IF commit \notin DOMAIN R.history THEN {}
    ELSE {commit} \cup Ancestors(R, R.history[commit].parent)

\* The commit of the upstream of the branch checked out, "" without upstream
UpstreamCommit(R) ==
    IF R.head \in DOMAIN R.tracking /\ R.tracking[R.head] \in DOMAIN R.remoteBranches
    THEN R.remoteBranches[R.tracking[R.head]]
    ELSE ""

Ahead(R) == Cardinality(Ancestors(R, R.at) \ Ancestors(R, UpstreamCommit(R)))

Behind(R) == Cardinality(Ancestors(R, UpstreamCommit(R)) \ Ancestors(R, R.at))

UntrackedFile == "new.txt"

UntrackedContent == "draft"

\* str.indexOf(sub), -1 if sub is not in str
IndexOfString(s, sub) ==
    IF Includes(s, sub)
    THEN CHOOSE i \in 0..(Len(s) - Len(sub)) :
            /\ SubSeq(s, i + 1, i + Len(sub)) = sub
            /\ \A j \in 0..(i - 1) : SubSeq(s, j + 1, j + Len(sub)) # sub
    ELSE -1

EndsWith(s, p) == Len(s) >= Len(p) /\ SubSeq(s, Len(s) - Len(p) + 1, Len(s)) = p

Digits == "0123456789"

DigitValue(c) == IndexOf(Digits, c)

\* parseInt(s, 10) of the digits s begins with
RECURSIVE DigitsValue(_, _)
DigitsValue(s, acc) ==
    IF Len(s) = 0 \/ DigitValue(CharAt(s, 0)) < 0 THEN acc
    ELSE DigitsValue(Substring(s, 1), 10 * acc + DigitValue(CharAt(s, 0)))

\* String(n) for the small numbers of commits ahead and behind
NumberText(n) == IF n < 10 THEN CharAt(Digits, n) ELSE CharAt(Digits, n \div 10) \o CharAt(Digits, n % 10)

\* The staged and the unstaged state of the tracked file, as the letters of `git status`
IndexLetter(R) ==
    IF R.file.index = R.file.head THEN " "
    ELSE IF R.file.index = "" THEN "D"
    ELSE IF R.file.head = "" THEN "A"
    ELSE "M"

WorkLetter(R) ==
    IF R.file.work = R.file.index THEN " "
    ELSE IF R.file.work = "" THEN "D"
    ELSE "M"

\* The upstream of the branch HEAD names, "" if it has none or HEAD is detached
UpstreamOf(R) == IF R.head \in DOMAIN R.tracking THEN R.tracking[R.head] ELSE ""

\* git status --porcelain=v1 -b -uall: the lines it prints
GitStatusLines(R) ==
    LET counts == IF Ahead(R) > 0 /\ Behind(R) > 0
                  THEN " [ahead " \o NumberText(Ahead(R)) \o ", behind "
                            \o NumberText(Behind(R)) \o "]"
                  ELSE IF Ahead(R) > 0 THEN " [ahead " \o NumberText(Ahead(R)) \o "]"
                  ELSE IF Behind(R) > 0 THEN " [behind " \o NumberText(Behind(R)) \o "]"
                  ELSE ""
        header == IF R.head = "" THEN "## HEAD (no branch)"
                  ELSE IF UpstreamOf(R) = "" THEN "## " \o R.head
                  ELSE "## " \o R.head \o "..." \o UpstreamOf(R) \o counts
    IN  << header >>
            \o (IF IndexLetter(R) # " " \/ WorkLetter(R) # " "
                THEN << IndexLetter(R) \o WorkLetter(R) \o " " \o TrackedFile >> ELSE << >>)
            \o (IF R.untracked THEN << "?? " \o UntrackedFile >> ELSE << >>)

\* Status, the enumeration of the adapter
INDEX_MODIFIED == 0

INDEX_ADDED == 1

INDEX_DELETED == 2

MODIFIED == 5

DELETED == 6

UNTRACKED == 7

\* repo.state.indexChanges and repo.state.workingTreeChanges
IndexChanges(R) ==
    IF IndexLetter(R) = " " THEN << >>
    ELSE << [ path |-> TrackedFile,
              status |-> IF IndexLetter(R) = "D" THEN INDEX_DELETED
                         ELSE IF IndexLetter(R) = "A" THEN INDEX_ADDED
                         ELSE INDEX_MODIFIED ] >>

WorkingTreeChanges(R) ==
    (IF WorkLetter(R) = " " THEN << >>
     ELSE << [path |-> TrackedFile, status |-> IF WorkLetter(R) = "D" THEN DELETED ELSE MODIFIED] >>)
        \o (IF R.untracked THEN << [path |-> UntrackedFile, status |-> UNTRACKED] >> ELSE << >>)

statusMap == << "A", "D", "R", "C", "M", "D", "?", "!", "A", "R", "T",
                "U", "U", "U", "U", "U", "U", "U" >>

mapStatus(status) ==
    IF status = 0 THEN "M"
    ELSE IF status \in 1..Len(statusMap) THEN statusMap[status]
    ELSE " "

\* The files of getGitStatus on the adapter path: the staged changes, then the unstaged
\* ones, each merged into the entry of its path if there is one.
RECURSIVE mergeWorkingTree(_, _, _)
mergeWorkingTree(files, changes, k) ==
    IF k > Len(changes) THEN files
    ELSE mergeWorkingTree(
            IF \E i \in 1..Len(files) : files[i].path = changes[k].path
            THEN [i \in 1..Len(files) |->
                    IF i = (CHOOSE j \in 1..Len(files) :
                                /\ files[j].path = changes[k].path
                                /\ \A h \in 1..(j - 1) : files[h].path # changes[k].path)
                    THEN [files[i] EXCEPT !.working_dir = mapStatus(changes[k].status)]
                    ELSE files[i]]
            ELSE Append(files, [ path |-> changes[k].path, index |-> " ",
                                 working_dir |-> mapStatus(changes[k].status) ]),
            changes, k + 1)

\* current, tracking, ahead and behind of the `##` line:
\* /^## (.+?)(?:\.\.\.(.+?))?(?:\s+\[(.+)\])?$/
BracketPart(t) ==
    /\ Len(t) > 0
    /\ CharAt(t, 0) \in WhiteSpace
    /\ StartsWith(TrimStart(t), "[")
    /\ EndsWith(t, "]")
    /\ Len(TrimStart(t)) >= 3

\* The end of the tracking ref when rest, which begins with "...", matches from there
\* on, -1 when it does not
TrackingEnd(rest) ==
    LET ends == { j \in 4..Len(rest) :
                    Substring(rest, j) = "" \/ BracketPart(Substring(rest, j)) }
    IN  IF StartsWith(rest, "...") /\ ends # {}
        THEN CHOOSE j \in ends : \A h \in ends : j <= h
        ELSE -1

HeaderRest(rest) ==
    \/ rest = ""
    \/ TrackingEnd(rest) >= 0
    \/ BracketPart(rest)

\* number after the word in the bracket, 0 without it: trackingInfo.match(/word (\d+)/)
CountAfter(trackingInfo, word) ==
    LET at == IndexOfString(trackingInfo, word \o " ")
    IN  IF at < 0 THEN 0
        ELSE DigitsValue(Substring(trackingInfo, at + Len(word) + 1), 0)

parseBranchLine(line) ==
    LET body == Substring(line, 3)
        cuts == { k \in 1..Len(body) : HeaderRest(Substring(body, k)) }
        cut == CHOOSE k \in cuts : \A h \in cuts : k <= h
        rest == Substring(body, cut)
        trackingEnd == TrackingEnd(rest)
        tail == IF trackingEnd >= 0 THEN Substring(rest, trackingEnd) ELSE rest
        trackingInfo == IF tail = "" THEN ""
                        ELSE Slice(TrimStart(tail), 1, Len(TrimStart(tail)) - 1)
    IN  IF ~StartsWith(line, "## ") \/ cuts = {}
        THEN [matched |-> FALSE, current |-> "", tracking |-> None, ahead |-> 0, behind |-> 0]
        ELSE [ matched |-> TRUE,
               current |-> Slice(body, 0, cut),
               tracking |-> IF trackingEnd >= 0 THEN Some(Slice(rest, 3, trackingEnd)) ELSE None,
               ahead |-> CountAfter(trackingInfo, "ahead"),
               behind |-> CountAfter(trackingInfo, "behind") ]

\* statusResult.stdout.trim().split('\n').filter(Boolean)
TrimmedLines(lines) ==
    SelectSeq([i \in 1..Len(lines) |->
                    IF i = 1 /\ i = Len(lines) THEN Trim(lines[i])
                    ELSE IF i = 1 THEN TrimStart(lines[i])
                    ELSE IF i = Len(lines) THEN TrimEnd(lines[i])
                    ELSE lines[i]],
              LAMBDA line : line # "")

\* Whether the adapter serves the call: it does unless it is absent.
AdapterPresent(adapter) == adapter # "absent"

\* The value of a call that rejects: the error goes to the caller
Thrown(message) == [thrown |-> message]

NoStatus ==
    [current |-> "", tracking |-> None, ahead |-> 0, behind |-> 0, files |-> << >>, isClean |-> TRUE]

\* execGit(['status', '--porcelain=v1', '-b', '-uall'])
GitStatus(R) == [exitCode |-> 0, stdout |-> GitStatusLines(R)]

\* The merge and rebase markers checkInProgressOperations reads are read alike on both
\* paths and are left out of the result.
getGitStatusRaw(R) ==
    LET statusResult == GitStatus(R)
        lines == TrimmedLines(statusResult.stdout)
        branchLines == SelectSeq(lines, LAMBDA line : StartsWith(line, "##"))
        fileLines == SelectSeq(lines, LAMBDA line : ~StartsWith(line, "##"))
        matched == SelectSeq([i \in 1..Len(branchLines) |-> parseBranchLine(branchLines[i])],
                             LAMBDA m : m.matched)
        files == [i \in 1..Len(fileLines) |->
                    [ path |-> Trim(Substring(fileLines[i], 3)),
                      index |-> IF Len(fileLines[i]) > 0 THEN CharAt(fileLines[i], 0) ELSE " ",
                      working_dir |-> IF Len(fileLines[i]) > 1 THEN CharAt(fileLines[i], 1) ELSE " " ]]
    IN  IF statusResult.exitCode # 0 THEN NoStatus
        ELSE [ current |-> IF Len(matched) > 0 THEN matched[Len(matched)].current ELSE "",
               tracking |-> IF Len(matched) > 0 THEN matched[Len(matched)].tracking ELSE None,
               ahead |-> IF Len(matched) > 0 THEN matched[Len(matched)].ahead ELSE 0,
               behind |-> IF Len(matched) > 0 THEN matched[Len(matched)].behind ELSE 0,
               files |-> files,
               isClean |-> Len(files) = 0 ]

getGitStatus(R, adapter) ==
    LET staged == [i \in 1..Len(IndexChanges(R)) |->
                    [ path |-> IndexChanges(R)[i].path,
                      index |-> mapStatus(IndexChanges(R)[i].status),
                      working_dir |-> " " ]]
        files == mergeWorkingTree(staged, WorkingTreeChanges(R), 1)
    IN  IF ~AdapterPresent(adapter) THEN getGitStatusRaw(R)
        ELSE [ current |-> R.head,
               tracking |-> IF R.head # "" /\ UpstreamOf(R) # "" THEN Some(UpstreamOf(R)) ELSE None,
               ahead |-> IF R.head # "" /\ UpstreamOf(R) # "" THEN Ahead(R) ELSE 0,
               behind |-> IF R.head # "" /\ UpstreamOf(R) # "" THEN Behind(R) ELSE 0,
               files |-> files,
               isClean |-> Len(files) = 0 ]

\* str.split(sep) for a separator of one character
RECURSIVE Split(_, _)
Split(s, sep) ==
    IF IndexOf(s, sep) < 0 THEN << s >>
    ELSE << Slice(s, 0, IndexOf(s, sep)) >> \o Split(Substring(s, IndexOf(s, sep) + 1), sep)

\* The members of a finite set of strings or records, one after the other
RECURSIVE Listing(_)
Listing(set) ==
    IF set = {} THEN << >>
    ELSE LET first == CHOOSE x \in set : TRUE
         IN  << first >> \o Listing(set \ {first})

\* git branch -a -v --format=%(refname:short)|%(objectname:short)|%(upstream:short)|%(HEAD):
\* a line for the detached HEAD if there is one, for every local branch and for every
\* remote-tracking branch
GitBranchLines(R) ==
    (IF R.head = "" THEN << "(HEAD detached at " \o R.at \o ")|" \o R.at \o "||*" >> ELSE << >>)
        \o Listing({ b \o "|" \o R.branches[b] \o "|"
                        \o (IF b \in DOMAIN R.tracking THEN R.tracking[b] ELSE "") \o "|"
                        \o (IF b = R.head THEN "*" ELSE " ") : b \in DOMAIN R.branches })
        \o Listing({ r \o "|" \o R.remoteBranches[r] \o "|| " : r \in DOMAIN R.remoteBranches })

GitBranchList(R) == [exitCode |-> 0, stdout |-> GitBranchLines(R)]

BranchDetails(current, name, commit, label, tracking, ahead, behind) ==
    [ current |-> current, name |-> name, commit |-> commit, label |-> label,
      tracking |-> tracking, ahead |-> ahead, behind |-> behind ]

\* The field of a line, undefined (here "") when the line has fewer fields
Field(fields, k) == IF k <= Len(fields) THEN fields[k] ELSE ""

\* all holds the names the array `all` lists, in any order
getGitBranchesRaw(R) ==
    LET listed == GitBranchList(R)
        lines == TrimmedLines(listed.stdout)
        parsed == { Split(lines[i], "|") : i \in 1..Len(lines) }
        named == { fields \in parsed : Field(fields, 1) # "" }
        current == { Field(fields, 1) : fields \in { f \in named : Field(f, 4) = "*" } }
    IN  IF listed.exitCode # 0 THEN [all |-> {}, current |-> "", branches |-> << >>]
        ELSE [ all |-> { Field(fields, 1) : fields \in named },
               current |-> IF current = {} THEN "" ELSE CHOOSE name \in current : TRUE,
               branches |-> [ name \in { Field(fields, 1) : fields \in named } |->
                    LET fields == CHOOSE f \in named : Field(f, 1) = name
                    IN  BranchDetails(Field(fields, 4) = "*", name, Field(fields, 2),
                                      StripPrefix(name, "remotes/"),
                                      IF Field(fields, 3) # "" THEN Some(Field(fields, 3)) ELSE None,
                                      None, None) ] ]

getGitBranches(R, adapter) ==
    LET currentBranch == R.head
        locals == { name \in DOMAIN R.branches : name # "" }
        remote == { name \in DOMAIN R.remoteBranches : name # "" }
        tracked(name) == name = R.head /\ R.head # "" /\ UpstreamOf(R) # ""
    IN  IF ~AdapterPresent(adapter) THEN getGitBranchesRaw(R)
        ELSE IF adapter = "failing" THEN Thrown("getBranches")
        ELSE [ all |-> locals \cup { "remotes/" \o name : name \in remote },
               current |-> currentBranch,
               branches |->
                    [ name \in locals |->
                        BranchDetails(name = currentBranch, name, R.branches[name], name,
                                      IF tracked(name) THEN Some(UpstreamOf(R)) ELSE None,
                                      IF tracked(name) THEN Some(Ahead(R)) ELSE None,
                                      IF tracked(name) THEN Some(Behind(R)) ELSE None) ]
                    @@ [ key \in { "remotes/" \o name : name \in remote } |->
                        BranchDetails(FALSE, key, R.remoteBranches[StripPrefix(key, "remotes/")],
                                      StripPrefix(key, "remotes/"), None, None, None) ] ]

\* A git command that changes the repository: its exit code and the repository after it.
Ran(exitCode, R) == [exitCode |-> exitCode, r |-> R]

Dirty(R) == R.file.index # R.file.head \/ R.file.work # R.file.index

FileAt(R, commit) ==
    [ head |-> R.history[commit].content, index |-> R.history[commit].content,
      work |-> R.history[commit].content ]

\* git checkout <branch>: refused when there is no such branch, or when the tracked file
\* is changed and the branch is at another commit
GitCheckout(R, branch) ==
    IF branch \notin DOMAIN R.branches THEN Ran(1, R)
    ELSE IF R.branches[branch] # R.at /\ Dirty(R) THEN Ran(1, R)
    ELSE Ran(0, [R EXCEPT !.head = branch,
                          !.at = R.branches[branch],
                          !.file = IF R.branches[branch] = R.at THEN @
                                   ELSE FileAt(R, R.branches[branch])])

\* git branch <name> [<startPoint>]
GitBranchCreate(R, name, startPoint) ==
    IF name = "" \/ name \in DOMAIN R.branches THEN Ran(128, R)
    ELSE IF startPoint = "" THEN Ran(0, [R EXCEPT !.branches = @ @@ [b \in {name} |-> R.at]])
    ELSE IF startPoint \in DOMAIN R.branches
    THEN Ran(0, [R EXCEPT !.branches = @ @@ [b \in {name} |-> R.branches[startPoint]]])
    ELSE IF startPoint \in DOMAIN R.remoteBranches
    THEN Ran(0, [R EXCEPT !.branches = @ @@ [b \in {name} |-> R.remoteBranches[startPoint]],
                          !.tracking = @ @@ [b \in {name} |-> startPoint]])
    ELSE Ran(128, R)

\* git branch -d|-D <branch>: the branch checked out is never deleted, and -d deletes
\* only a branch that HEAD, or the upstream of the branch, contains
GitBranchRemove(R, branch, force) ==
    LET merged == \/ R.branches[branch] \in Ancestors(R, R.at)
                  \/ /\ branch \in DOMAIN R.tracking
                     /\ R.tracking[branch] \in DOMAIN R.remoteBranches
                     /\ R.branches[branch] \in Ancestors(R, R.remoteBranches[R.tracking[branch]])
    IN  IF branch \notin DOMAIN R.branches \/ branch = R.head THEN Ran(1, R)
        ELSE IF ~force /\ ~merged THEN Ran(1, R)
        ELSE Ran(0, [R EXCEPT !.branches = [b \in (DOMAIN @) \ {branch} |-> @[b]],
                              !.tracking = [b \in (DOMAIN @) \ {branch} |-> @[b]]])

\* git checkout -- <filePath>: the working file is the indexed one again
GitCheckoutFile(R, filePath) ==
    IF filePath # TrackedFile THEN Ran(1, R)
    ELSE Ran(0, [R EXCEPT !.file.work = R.file.index])

\* git add -A (all) and git add <files>: the working content of the tracked file goes
\* into the index.  The untracked file stays out of the commits of this model.
GitAdd(R, all, files) ==
    IF all \/ files = {TrackedFile} THEN Ran(0, [R EXCEPT !.file.index = R.file.work])
    ELSE Ran(128, R)

\* git commit -m <message>: a new commit of the index, on the branch checked out if any;
\* nothing is committed when the index holds what HEAD holds or when there is no message
GitCommit(R, message) ==
    IF message = "" \/ R.file.index = R.file.head \/ NextCommit(R) = "" THEN Ran(1, R)
    ELSE Ran(0, [R EXCEPT !.at = NextCommit(R),
                          !.history = @ @@ [c \in {NextCommit(R)} |->
                                                [content |-> R.file.index, parent |-> R.at]],
                          !.branches = IF R.head = "" THEN @
                                       ELSE [@ EXCEPT ![R.head] = NextCommit(R)],
                          !.file.head = R.file.index])

\* git fetch [<remote>] [<branch>]: online says whether the remote answers.  The remote
\* is `origin` and has the branch `main`, one commit ahead of the first.
GitFetchFrom(R, online, remote, branch) ==
    IF ~online \/ remote \notin {"", "origin"} \/ branch \notin {"", "main"} THEN Ran(1, R)
    ELSE Ran(0, [R EXCEPT !.remoteBranches = [@ EXCEPT !["origin/main"] = RemoteCommit],
                          !.history = @ @@ [c \in {RemoteCommit} |->
                                                [content |-> RemoteContent, parent |-> FirstCommit]]])

\* git pull [<remote>] [<branch>]: without arguments it needs the upstream of the branch
\* checked out; it merges by fast-forward only, and only over an unchanged tracked file.
GitPull(R, online, remote, branch) ==
    LET fetch == GitFetchFrom(R, online, remote, branch)
    IN  IF fetch.exitCode # 0 THEN Ran(1, R)
        ELSE IF R.head = "" \/ (remote = "" /\ UpstreamOf(R) = "") THEN Ran(1, fetch.r)
        ELSE IF RemoteCommit \in Ancestors(fetch.r, R.at) THEN Ran(0, fetch.r)
        ELSE IF R.at # FirstCommit THEN Ran(128, fetch.r)
        ELSE IF Dirty(R) THEN Ran(1, fetch.r)
        ELSE Ran(0, [fetch.r EXCEPT !.at = RemoteCommit,
                                    !.branches = [@ EXCEPT ![R.head] = RemoteCommit],
                                    !.file = FileAt(fetch.r, RemoteCommit)])

\* git rev-parse --abbrev-ref HEAD
GitAbbrevRefHead(R) == IF R.head = "" THEN "HEAD" ELSE R.head

\* git show <ref>:<path> and the show of the adapter: the content, None when the ref has
\* no such file (the adapter throws)
GitShow(R, ref, filePath) ==
    IF filePath # TrackedFile THEN None
    ELSE IF ref = "HEAD" THEN (IF R.file.head = "" THEN None ELSE Some(R.file.head))
    ELSE IF ref = ":0:" \o filePath THEN (IF R.file.index = "" THEN None ELSE Some(R.file.index))
    ELSE None

\* The file of the working tree, None when there is none (reading it throws)
ReadFile(R, filePath) ==
    IF filePath = TrackedFile /\ R.file.work # "" THEN Some(R.file.work)
    ELSE IF filePath = UntrackedFile /\ R.untracked THEN Some(UntrackedContent)
    ELSE None

\* The outcome of a dual-path operation: what it returns and the repository it leaves.
Outcome(value, R) == [value |-> value, r |-> R]

\* Whether a call of the adapter throws: always when the adapter is failing, otherwise
\* when the git command under it fails.
Throws(adapter, ran) == adapter = "failing" \/ ran.exitCode # 0

\* The repository a call of the adapter leaves
Left(adapter, R, ran) == IF adapter = "failing" THEN R ELSE ran.r

checkoutBranch(R, adapter, branch) ==
    LET checkout == GitCheckout(R, branch)
        fallback == GitCheckout(Left(adapter, R, checkout), branch)
    IN  IF AdapterPresent(adapter) /\ ~Throws(adapter, checkout)
        THEN Outcome([success |-> TRUE, branch |-> branch], checkout.r)
        ELSE IF AdapterPresent(adapter)
        THEN Outcome([success |-> fallback.exitCode = 0, branch |-> branch], fallback.r)
        ELSE Outcome([success |-> checkout.exitCode = 0, branch |-> branch], checkout.r)

\* git checkout --detach HEAD
GitCheckoutDetach(R) == Ran(0, [R EXCEPT !.head = ""])

detachHead(R) ==
    Outcome([success |-> GitCheckoutDetach(R).exitCode = 0, commit |-> R.at], GitCheckoutDetach(R).r)

createBranch(R, adapter, name, startPoint) ==
    LET created == GitBranchCreate(R, name, startPoint)
        fallback == GitBranchCreate(Left(adapter, R, created), name, startPoint)
    IN  IF AdapterPresent(adapter) /\ ~Throws(adapter, created)
        THEN Outcome([success |-> TRUE, branch |-> name], created.r)
        ELSE IF AdapterPresent(adapter)
        THEN Outcome([success |-> fallback.exitCode = 0, branch |-> name], fallback.r)
        ELSE Outcome([success |-> created.exitCode = 0, branch |-> name], created.r)

deleteGitBranch(R, adapter, branch, force) ==
    LET deleted == GitBranchRemove(R, branch, force)
        fallback == GitBranchRemove(Left(adapter, R, deleted), branch, force)
    IN  IF AdapterPresent(adapter) /\ ~Throws(adapter, deleted)
        THEN Outcome([success |-> TRUE], deleted.r)
        ELSE IF AdapterPresent(adapter)
        THEN Outcome([success |-> fallback.exitCode = 0], fallback.r)
        ELSE Outcome([success |-> deleted.exitCode = 0], deleted.r)

NoDiff(filePath) == [original |-> "", modified |-> "", path |-> filePath]

getGitFileDiff(R, adapter, filePath, staged) ==
    LET fromHead == GitShow(R, "HEAD", filePath)
        fromIndex == GitShow(R, ":0:" \o filePath, filePath)
        original == IF staged THEN fromHead
                    ELSE IF fromIndex # None THEN fromIndex
                    ELSE fromHead
        modified == ReadFile(R, filePath)
    IN  IF adapter = "healthy" /\ original # None /\ modified # None
        THEN Outcome([original |-> original[1], modified |-> modified[1], path |-> filePath], R)
        ELSE Outcome(NoDiff(filePath), R)

\* The value of a function that returns nothing
Undefined == [undefined |-> TRUE]

revertGitFile(R, adapter, filePath) ==
    LET reverted == GitCheckoutFile(R, filePath)
    IN  IF AdapterPresent(adapter) /\ ~Throws(adapter, reverted) THEN Outcome(Undefined, reverted.r)
        ELSE Outcome(Undefined, GitCheckoutFile(Left(adapter, R, reverted), filePath).r)

NoSummary == [changes |-> 0, insertions |-> 0, deletions |-> 0]

\* git add under createGitCommit, or nothing when the options ask for none
commitAdd(R, options) ==
    IF options.addAll THEN GitAdd(R, TRUE, {})
    ELSE IF options.files # {} THEN GitAdd(R, FALSE, options.files)
    ELSE Ran(0, R)

\* The CLI path of createGitCommit
commitRaw(R, message, options) ==
    LET added == commitAdd(R, options)
        fallback == GitCommit(added.r, message)
    IN  IF fallback.exitCode # 0
        THEN Outcome([success |-> FALSE, commit |-> "", branch |-> "", summary |-> NoSummary],
                     fallback.r)
        ELSE Outcome([ success |-> TRUE, commit |-> Trim(fallback.r.at),
                       branch |-> Trim(GitAbbrevRefHead(fallback.r)), summary |-> NoSummary ],
                     fallback.r)

createGitCommit(R, adapter, message, options) ==
    LET added == commitAdd(R, options)
        committed == GitCommit(added.r, message)
    IN  IF ~AdapterPresent(adapter) \/ adapter = "failing" THEN commitRaw(R, message, options)
        ELSE IF added.exitCode # 0 THEN commitRaw(added.r, message, options)
        ELSE IF committed.exitCode # 0 THEN commitRaw(committed.r, message, options)
        ELSE Outcome([ success |-> TRUE, commit |-> committed.r.at, branch |-> committed.r.head,
                       summary |-> NoSummary ],
                     committed.r)

PullResult(success) ==
    [ success |-> success, summary |-> NoSummary, files |-> << >>, insertions |-> 0,
      deletions |-> 0 ]

gitPull(R, adapter, online, options) ==
    LET pulled == GitPull(R, online, "", "")
        fallback == GitPull(IF AdapterPresent(adapter) THEN Left(adapter, R, pulled) ELSE R,
                          online, options.remote, options.branch)
    IN  IF AdapterPresent(adapter) /\ ~Throws(adapter, pulled)
        THEN Outcome(PullResult(TRUE), pulled.r)
        ELSE Outcome(PullResult(fallback.exitCode = 0), fallback.r)

gitFetch(R, adapter, online, options) ==
    LET fetched == GitFetchFrom(R, online, options.remote, options.branch)
        fallback == GitFetchFrom(IF AdapterPresent(adapter) THEN Left(adapter, R, fetched) ELSE R,
                               online, options.remote, options.branch)
    IN  IF AdapterPresent(adapter) /\ ~Throws(adapter, fetched)
        THEN Outcome([success |-> TRUE], fetched.r)
        ELSE Outcome([success |-> fallback.exitCode = 0], fallback.r)

\* repo.getConfig(key).catch(() => ''): the value, '' for a key that is not set or when
\* the adapter throws
getConfigOrEmpty(config, adapter, key) ==
    IF adapter = "failing" \/ config[key] = None THEN "" ELSE config[key][1]

\* execGit(['config', key]): the value and a newline, exit code 1 for a key not set
GitConfigGet(config, key) ==
    IF config[key] = None THEN [exitCode |-> 1, stdout |-> ""]
    ELSE [exitCode |-> 0, stdout |-> config[key][1] \o "\n"]

\* value || null
OrNull(value) == IF value = "" THEN None ELSE Some(value)

IdentityKeys == {"userName", "userEmail", "sshCommand"}

getCurrentGitIdentity(config, adapter) ==
    IF AdapterPresent(adapter)
    THEN [key \in IdentityKeys |-> OrNull(getConfigOrEmpty(config, adapter, key))]
    ELSE [key \in IdentityKeys |->
            IF GitConfigGet(config, key).exitCode = 0
            THEN Some(Trim(GitConfigGet(config, key).stdout))
            ELSE None]

\* What getRepository gives: no adapter, one that works, one whose calls throw; or
\* getRepository itself throws (api.openRepository rejects)
Adapters == {"absent", "healthy", "failing", "unobtainable"}

BranchArguments == {"main", "feat", "nope"}

StartPoints == {"", "origin/main"}

FileArguments == {TrackedFile, UntrackedFile}

CommitOptions == [addAll : BOOLEAN, files : {{}, {TrackedFile}}]

RemoteOptionsOf == { [remote |-> "", branch |-> ""], [remote |-> "origin", branch |-> "main"] }

\* What the user may leave in a.txt
WorkContents == {FirstContent, "v2"}

\* The identities setGitIdentity is given here; an empty name is written as it is
DualIdentities == [userName : {"Ann", ""}, userEmail : {"ann@x.io"}]

identityCall(adapter, identity) ==
    [ repo |-> AdapterPresent(adapter), userName |-> identity.userName,
      userEmail |-> identity.userEmail, sshKey |-> "", platform |-> "linux",
      adapterFailAt |-> IF adapter = "failing" THEN 1 ELSE 0, cliFailAt |-> 0 ]

\* The operation named op, called with args on the repository R with the configuration
\* config, getRepository giving adapter: what it returns, and the repository and the
\* configuration it leaves.
Dual(op, R, config, adapter, args) ==
    LET kept(outcome) == [value |-> outcome.value, r |-> outcome.r, config |-> config]
    IN  CASE adapter = "unobtainable" ->
                [value |-> Thrown("openRepository"), r |-> R, config |-> config]
          [] op = "getGitStatus" -> kept(Outcome(getGitStatus(R, adapter), R))
          [] op = "getGitBranches" -> kept(Outcome(getGitBranches(R, adapter), R))
          [] op = "checkoutBranch" -> kept(checkoutBranch(R, adapter, args.branch))
          [] op = "createBranch" -> kept(createBranch(R, adapter, args.name, args.startPoint))
          [] op = "deleteGitBranch" -> kept(deleteGitBranch(R, adapter, args.branch, args.force))
          [] op = "getGitFileDiff" -> kept(getGitFileDiff(R, adapter, args.filePath, args.staged))
          [] op = "revertGitFile" -> kept(revertGitFile(R, adapter, args.filePath))
          [] op = "createGitCommit" -> kept(createGitCommit(R, adapter, args.message, args.options))
          [] op = "gitPull" -> kept(gitPull(R, adapter, args.online, args.options))
          [] op = "gitFetch" -> kept(gitFetch(R, adapter, args.online, args.options))
          [] op = "getCurrentGitIdentity" ->
                [value |-> getCurrentGitIdentity(config, adapter), r |-> R, config |-> config]
          [] op = "setGitIdentity" ->
                [ value |-> setGitIdentity(config, identityCall(adapter, args)).value, r |-> R,
                  config |-> setGitIdentity(config, identityCall(adapter, args)).config ]

DualArguments(op) ==
    CASE op \in {"getGitStatus", "getGitBranches", "getCurrentGitIdentity"} -> {Null}
      [] op = "checkoutBranch" -> [branch : BranchArguments]
      [] op = "createBranch" -> [name : {"feat", "main"}, startPoint : StartPoints]
      [] op = "deleteGitBranch" -> [branch : BranchArguments, force : BOOLEAN]
      [] op = "getGitFileDiff" -> [filePath : FileArguments, staged : BOOLEAN]
      [] op = "revertGitFile" -> [filePath : {TrackedFile}]
      [] op = "createGitCommit" -> [message : {"fix", ""}, options : CommitOptions]
      [] op \in {"gitPull", "gitFetch"} -> [online : BOOLEAN, options : RemoteOptionsOf]
      [] op = "setGitIdentity" -> DualIdentities

InitDual ==
    /\ marker = ProjectId
    /\ roots = {ProjectId}
    /\ heads = {"main"}
    /\ remoteRefs = {"origin/main"}
    /\ remotes = [n \in {"origin"} |-> ServerUrl]
    /\ worktrees = << [worktree |-> PrimaryPath, branchRef |-> "refs/heads/main"] >>
    /\ dirs = {PrimaryPath}
    /\ project = Null
    /\ branchConfig = [b \in {} |-> Null]
    /\ gitConfig = NoIdentity
    /\ repository = FreshRepository
    /\ gitApi = NoGitApi
    /\ gitExtensionEnabled = FALSE
    /\ vscodeGit = EnabledExtension
    /\ calls = NoCalls
    /\ timers = {}
    /\ result = Null

\* One call of the operation named op.
DualCall(op) ==
    /\ result = Null
    /\ \E adapter \in Adapters, args \in DualArguments(op) :
        \E done \in {Dual(op, repository, gitConfig, adapter, args)} :
            /\ repository' = done.r
            /\ gitConfig' = done.config
            /\ result' = [ op |-> op, adapter |-> adapter, args |-> args, before |-> repository,
                           config |-> gitConfig, value |-> done.value ]
    /\ UNCHANGED << worktreeVars, extensionVars, calls, timers >>

DetachCall ==
    /\ result = Null
    /\ repository.head # ""
    /\ repository' = detachHead(repository).r
    /\ result' = [op |-> "detachHead", value |-> detachHead(repository).value]
    /\ UNCHANGED << worktreeVars, extensionVars, gitConfig, calls, timers >>

\* The user edits or deletes a.txt, or creates or deletes new.txt.
EditFile ==
    /\ result = Null
    /\ \E content \in WorkContents, untracked \in BOOLEAN :
        repository' = [repository EXCEPT !.file.work = content, !.untracked = untracked]
    /\ UNCHANGED << worktreeVars, extensionVars, gitConfig, calls, timers, result >>

NextDual ==
    \/ DualCall("getGitStatus")
    \/ DualCall("getGitBranches")
    \/ DualCall("checkoutBranch")
    \/ DualCall("createBranch")
    \/ DualCall("deleteGitBranch")
    \/ DualCall("getGitFileDiff")
    \/ DualCall("revertGitFile")
    \/ DualCall("createGitCommit")
    \/ DualCall("gitPull")
    \/ DualCall("gitFetch")
    \/ DualCall("getCurrentGitIdentity")
    \/ DualCall("setGitIdentity")
    \/ DetachCall
    \/ EditFile
    \/ Return

SpecDual == InitDual /\ [][NextDual]_vars

(***************************************************************************)
(* The project ID over the life of the repository: context resolutions,    *)
(* worktree creations and removals, new commits and new root commits.      *)
(***************************************************************************)
\* The root commits the repository may gain: histories fetched or orphan branches made
NewRoots == {"0c2", "f90"}

\* The directories a context is resolved from: the primary worktree and the linked ones
ContextDirectories == { worktrees[i].worktree : i \in 1..Len(worktrees) }

\* The record of the IDs resolved so far: the first one and the latest.
Resolved(projectID) ==
    IF result = Null
    THEN [op |-> "resolve", first |-> projectID, last |-> projectID, rootsWere |-> roots,
          markerWas |-> marker]
    ELSE [result EXCEPT !.last = projectID, !.markerWas = marker]

InitProject ==
    /\ marker = ""
    /\ roots = {ProjectId}
    /\ heads = {"main"}
    /\ remoteRefs = {}
    /\ remotes = [n \in {"origin"} |-> ServerUrl]
    /\ worktrees = << [worktree |-> PrimaryPath, branchRef |-> "refs/heads/main"] >>
    /\ dirs = {PrimaryPath}
    /\ project = Null
    /\ branchConfig = [b \in {} |-> Null]
    /\ gitConfig = NoIdentity
    /\ repository = FreshRepository
    /\ gitApi = NoGitApi
    /\ gitExtensionEnabled = FALSE
    /\ vscodeGit = EnabledExtension
    /\ calls = NoCalls
    /\ timers = {}
    /\ result = Null

\* resolveWorktreeProjectContext on its own, as validateWorktreeCreate makes it
ResolveCall ==
    /\ \E directory \in ContextDirectories, markerOk \in BOOLEAN :
        \E context \in {resolveWorktreeProjectContext([World EXCEPT !.markerOk = markerOk], directory)} :
            /\ context.err = ""
            /\ Install(context.w)
            /\ result' = Resolved(context.projectID)
    /\ UNCHANGED calls

ProjectCreate ==
    /\ Len(worktrees) < MaxWorktrees
    /\ timers = {}
    /\ \E directory \in ContextDirectories, markerOk \in BOOLEAN :
        \E context \in {createContext([World EXCEPT !.markerOk = markerOk], directory)} :
            \E candidate \in candidatesIn(context, "demo", "") :
                \E c \in {createFromPlan(createPlanIn(context, RaceInput("new", "demo", "", "", ""),
                                                      candidate, "", "HEAD", "", ""),
                                         RaceInput("new", "demo", "", "", ""))} :
                    /\ context.err = ""
                    /\ c.err = ""
                    /\ Install(c.w)
                    /\ result' = Resolved(context.projectID)
    /\ UNCHANGED calls

ProjectRemove ==
    /\ \E i \in 2..Len(worktrees), markerOk \in BOOLEAN :
        \E r \in {removeWorktree([World EXCEPT !.markerOk = markerOk], PrimaryPath,
                                 [directory |-> worktrees[i].worktree, deleteLocalBranch |-> TRUE])} :
            /\ r.err = ""
            /\ Install(r.w)
            /\ result' = Resolved(resolveWorktreeProjectContext(
                                    [World EXCEPT !.markerOk = markerOk], PrimaryPath).projectID)
    /\ UNCHANGED calls

\* A commit on the branch checked out: the root commits stay the same.
NewCommit ==
    /\ GitCommit([repository EXCEPT !.file.index = "v2"], "fix").exitCode = 0
    /\ repository' = GitCommit([repository EXCEPT !.file.index = "v2"], "fix").r
    /\ UNCHANGED << worktreeVars, extensionVars, gitConfig, calls, timers, result >>

\* A history with a root commit of its own comes into the repository.
NewRootCommit ==
    /\ \E root \in NewRoots \ roots : roots' = roots \cup {root}
    /\ UNCHANGED << marker, heads, remoteRefs, remotes, worktrees, dirs, project, branchConfig,
                    gitConfig, repository, extensionVars, calls, timers, result >>

NextProject ==
    \/ ResolveCall
    \/ ProjectCreate
    \/ ProjectRemove
    \/ NewCommit
    \/ NewRootCommit
    \/ StartScripts

SpecProject == InitProject /\ [][NextProject]_vars

(***************************************************************************)
(* getGitStatus called again and again while the vscode.git extension is   *)
(* found or not, enabled or disabled, and the repository changes or not.   *)
(***************************************************************************)
\* extension.getAPI(1)
GitApiV1 == Some("vscode.git")

\* initGitExtension: the API it returns, and the module state and the listener it leaves
initGitExtension(api, enabled, extension) ==
    IF api # None /\ enabled
    THEN [api |-> api, gitApi |-> api, gitExtensionEnabled |-> enabled, vscodeGit |-> extension]
    ELSE IF ~extension.found \/ ~extension.enabled
    THEN [api |-> None, gitApi |-> api, gitExtensionEnabled |-> enabled, vscodeGit |-> extension]
    ELSE [ api |-> GitApiV1, gitApi |-> GitApiV1, gitExtensionEnabled |-> TRUE,
           vscodeGit |-> [extension EXCEPT !.listening = TRUE] ]

getGitApi(api, enabled, extension) ==
    IF api # None /\ enabled
    THEN [api |-> api, gitApi |-> api, gitExtensionEnabled |-> enabled, vscodeGit |-> extension]
    ELSE initGitExtension(api, enabled, extension)

\* getRepository: the repository of the API when there is an API, null otherwise
getRepository(api) == IF api = None THEN "absent" ELSE "healthy"

\* The callback of onDidChangeEnablement
onDidChangeEnablement(api, enabled) ==
    [gitApi |-> IF enabled THEN api ELSE None, gitExtensionEnabled |-> enabled]

\* The last status and the one before it, while the repository stayed as it was
StatusSeen(value, adapter) ==
    [ op |-> "getGitStatus", adapter |-> adapter, value |-> value,
      previous |-> IF result = Null THEN None ELSE Some(result.value),
      previousAdapter |-> IF result = Null THEN "" ELSE result.adapter ]

InitStatus ==
    /\ marker = ProjectId
    /\ roots = {ProjectId}
    /\ heads = {"main"}
    /\ remoteRefs = {"origin/main"}
    /\ remotes = [n \in {"origin"} |-> ServerUrl]
    /\ worktrees = << [worktree |-> PrimaryPath, branchRef |-> "refs/heads/main"] >>
    /\ dirs = {PrimaryPath}
    /\ project = Null
    /\ branchConfig = [b \in {} |-> Null]
    /\ gitConfig = NoIdentity
    /\ repository = FreshRepository
    /\ gitApi = NoGitApi
    /\ gitExtensionEnabled = FALSE
    /\ vscodeGit \in [found : BOOLEAN, enabled : BOOLEAN, listening : {FALSE}]
    /\ calls = NoCalls
    /\ timers = {}
    /\ result = Null

StatusCall ==
    /\ \E got \in {getGitApi(gitApi, gitExtensionEnabled, vscodeGit)} :
        /\ gitApi' = got.gitApi
        /\ gitExtensionEnabled' = got.gitExtensionEnabled
        /\ vscodeGit' = got.vscodeGit
        /\ result' = StatusSeen(getGitStatus(repository, getRepository(got.api)),
                                getRepository(got.api))
    /\ UNCHANGED << worktreeVars, gitConfig, repository, calls, timers >>

\* The user enables or disables the extension; the module hears of it once it listens.
ChangeEnablement ==
    /\ vscodeGit.found
    /\ vscodeGit' = [vscodeGit EXCEPT !.enabled = ~@]
    /\ IF vscodeGit.listening
       THEN /\ gitApi' = onDidChangeEnablement(gitApi, ~vscodeGit.enabled).gitApi
            /\ gitExtensionEnabled' = onDidChangeEnablement(gitApi, ~vscodeGit.enabled).gitExtensionEnabled
       ELSE UNCHANGED << gitApi, gitExtensionEnabled >>
    /\ UNCHANGED << worktreeVars, gitConfig, repository, calls, timers, result >>

\* The repository changes: the statuses taken before are no longer compared.
StatusEdit ==
    /\ \E content \in WorkContents, untracked \in BOOLEAN :
        /\ [repository EXCEPT !.file.work = content, !.untracked = untracked] # repository
        /\ repository' = [repository EXCEPT !.file.work = content, !.untracked = untracked]
    /\ result' = Null
    /\ UNCHANGED << worktreeVars, extensionVars, gitConfig, calls, timers >>

StatusStage ==
    /\ GitAdd(repository, TRUE, {}).r # repository
    /\ repository' = GitAdd(repository, TRUE, {}).r
    /\ result' = Null
    /\ UNCHANGED << worktreeVars, extensionVars, gitConfig, calls, timers >>

StatusCommit ==
    /\ GitCommit(repository, "fix").exitCode = 0
    /\ repository' = GitCommit(repository, "fix").r
    /\ result' = Null
    /\ UNCHANGED << worktreeVars, extensionVars, gitConfig, calls, timers >>

StatusFetch ==
    /\ GitFetchFrom(repository, TRUE, "", "").r # repository
    /\ repository' = GitFetchFrom(repository, TRUE, "", "").r
    /\ result' = Null
    /\ UNCHANGED << worktreeVars, extensionVars, gitConfig, calls, timers >>

StatusDetach ==
    /\ repository.head # ""
    /\ repository' = detachHead(repository).r
    /\ result' = Null
    /\ UNCHANGED << worktreeVars, extensionVars, gitConfig, calls, timers >>

NextStatus ==
    \/ StatusCall
    \/ ChangeEnablement
    \/ StatusEdit
    \/ StatusStage
    \/ StatusCommit
    \/ StatusFetch
    \/ StatusDetach

SpecStatus == InitStatus /\ [][NextStatus]_vars

(***************************************************************************)
(* The project record under adds and removes, whatever was stored before:  *)
(* the file is shared with the other writers of the data directory.        *)
(***************************************************************************)
\* The latest value of Date.now() in this specification.
MaxClock == 3

SandboxA == "/w/a"

SandboxB == "/w/b"

\* What a stored sandboxes list may hold, entry by entry
StoredEntries == {SandboxA, " " \o SandboxA, SandboxB, "  ", ""}

StoredLists ==
    {<< >>} \cup { << a >> : a \in StoredEntries }
            \cup { << a, b >> : a \in StoredEntries, b \in StoredEntries }

\* The time of a stored record: none, one without a number for created, or one whose
\* created is negative, zero or positive
StoredTimes ==
    { [updated |-> 1] } \cup { [created |-> c, updated |-> 1] : c \in {-1, 0, 1, 2} }

StoredRecords ==
    { [id |-> ProjectId, worktree |-> PrimaryPath, vcs |-> "git", sandboxes |-> list] :
        list \in StoredLists }
    \cup { [ id |-> ProjectId, worktree |-> PrimaryPath, vcs |-> "git", sandboxes |-> list,
             time |-> time ] : list \in {<< >>, << SandboxA >>, << SandboxA, SandboxA >>},
                               time \in StoredTimes }

\* The paths the record is updated with
SandboxArguments == {SandboxA, SandboxB, SandboxA \o " ", " "}

InitStore ==
    /\ marker = ProjectId
    /\ roots = {ProjectId}
    /\ heads = {"main"}
    /\ remoteRefs = {}
    /\ remotes = [n \in {"origin"} |-> ServerUrl]
    /\ worktrees = << [worktree |-> PrimaryPath, branchRef |-> "refs/heads/main"] >>
    /\ dirs = {PrimaryPath}
    /\ project \in {Null} \cup StoredRecords
    /\ branchConfig = [b \in {} |-> Null]
    /\ gitConfig = NoIdentity
    /\ repository = FreshRepository
    /\ gitApi = NoGitApi
    /\ gitExtensionEnabled = FALSE
    /\ vscodeGit = EnabledExtension
    /\ calls = NoCalls
    /\ timers = {}
    /\ result = Null

StoreUpdated(W, push, sandboxPath, now) ==
    [ op |-> "store", push |-> push, sandbox |-> sandboxPath, now |-> now, before |-> project,
      written |-> \E i \in 1..Len(W.log) : W.log[i][1] = "store write" ]

StoreAdd ==
    /\ \E sandboxPath \in SandboxArguments, now \in 1..MaxClock, storeOk \in BOOLEAN :
        \E W \in {syncProjectSandboxAdd([World EXCEPT !.now = now, !.storeOk = storeOk],
                                        ProjectId, PrimaryPath, sandboxPath)} :
            /\ Install(W)
            /\ result' = StoreUpdated(W, TRUE, sandboxPath, now)
    /\ UNCHANGED calls

StoreRemove ==
    /\ \E sandboxPath \in SandboxArguments, now \in 1..MaxClock, storeOk \in BOOLEAN :
        \E W \in {syncProjectSandboxRemove([World EXCEPT !.now = now, !.storeOk = storeOk],
                                           ProjectId, PrimaryPath, sandboxPath)} :
            /\ Install(W)
            /\ result' = StoreUpdated(W, FALSE, sandboxPath, now)
    /\ UNCHANGED calls

NextStore ==
    \/ StoreAdd
    \/ StoreRemove

SpecStore == InitStore /\ [][NextStore]_vars

(***************************************************************************)
(* createWorktree and removeWorktree step by step: the commands a call     *)
(* issues, in the order of the log, when `reset --hard`, the deletion of a *)
(* directory and the write of the project record may each fail.            *)
(***************************************************************************)
\* A directory under the worktree root that no worktree record points to.
OrphanPath == "/data/opencode/worktree/a3f/old"

StepOptions ==
    { [setUpstream |-> FALSE, upstreamRemote |-> "", upstreamBranch |-> "",
       ensureRemoteName |-> "", ensureRemoteUrl |-> ""],
      [setUpstream |-> FALSE, upstreamRemote |-> "origin", upstreamBranch |-> "feat",
       ensureRemoteName |-> "", ensureRemoteUrl |-> ""],
      [setUpstream |-> TRUE, upstreamRemote |-> "", upstreamBranch |-> "",
       ensureRemoteName |-> "", ensureRemoteUrl |-> ""],
      [setUpstream |-> TRUE, upstreamRemote |-> "origin", upstreamBranch |-> "",
       ensureRemoteName |-> "", ensureRemoteUrl |-> ""],
      [setUpstream |-> TRUE, upstreamRemote |-> "origin", upstreamBranch |-> "feat",
       ensureRemoteName |-> "", ensureRemoteUrl |-> ""],
      [setUpstream |-> TRUE, upstreamRemote |-> "origin", upstreamBranch |-> "gone",
       ensureRemoteName |-> "", ensureRemoteUrl |-> ""],
      [setUpstream |-> TRUE, upstreamRemote |-> "fork", upstreamBranch |-> "feat",
       ensureRemoteName |-> "", ensureRemoteUrl |-> ""],
      [setUpstream |-> TRUE, upstreamRemote |-> "fork", upstreamBranch |-> "feat",
       ensureRemoteName |-> "fork", ensureRemoteUrl |-> "u1"] }

\* The requests createWorktree is called with in this specification.
StepInputs ==
    { i \in { [mode |-> "new", worktreeName |-> "demo", branchName |-> b,
                existingBranch |-> "", startRef |-> s] @@ o :
                b \in {"", "topic"}, s \in {"", "origin/feat"}, o \in StepOptions } :
        i.branchName = "" \/ i.startRef = "" }
      \cup
    { [mode |-> "existing", worktreeName |-> "demo", branchName |-> b, existingBranch |-> e,
       startRef |-> ""] @@ o :
        b \in {"", "topic"}, e \in {"feat", "origin/feat", "origin/gone", "nope"},
        o \in {p \in StepOptions : p.upstreamRemote = ""} }

\* What may fail during a call: nothing, the write of the project record, `reset --hard`,
\* the deletion of a directory.
StepFaults == {"none", "store", "reset", "rm"}

Faulty(W, fault) ==
    [W EXCEPT !.storeOk = fault # "store", !.resetOk = fault # "reset", !.rmOk = fault # "rm"]

\* Local branches made by earlier calls from which on this specification makes no further
\* createWorktree call.
MaxStepBranches == 1

StepRemoveInputs ==
    { [directory |-> t, deleteLocalBranch |-> d] :
        t \in WorktreePaths \cup {StalePath, OrphanPath}, d \in BOOLEAN }

InitSteps ==
    /\ marker = ProjectId
    /\ roots = {"b71", ProjectId}
    /\ heads \in {{"main"}, {"main", "feat"}}
    /\ remoteRefs \in {{}, {"origin/feat"}}
    /\ remotes = [n \in {"origin"} |-> ServerUrl]
    /\ worktrees = << [worktree |-> PrimaryPath, branchRef |-> "refs/heads/main"] >>
    /\ dirs \in {{PrimaryPath}, {PrimaryPath, OrphanPath}}
    /\ project \in { Null,
                     [ id |-> ProjectId, worktree |-> PrimaryPath, vcs |-> "git",
                       sandboxes |-> << StalePath, OrphanPath >> ] }
    /\ branchConfig = [b \in {} |-> Null]
    /\ gitConfig = NoIdentity
    /\ repository = FreshRepository
    /\ gitApi = NoGitApi
    /\ gitExtensionEnabled = FALSE
    /\ vscodeGit = EnabledExtension
    /\ calls = NoCalls
    /\ timers = {}
    /\ result = Null

\* One createWorktree call, from its first statement to its return or throw.
StepCreate ==
    /\ result = Null
    /\ Cardinality(heads \ {"main", "feat"}) < MaxStepBranches
    /\ \E input \in StepInputs, fault \in StepFaults \ {"rm"} :
        \E before \in {Faulty(World, fault)} :
            \E candidate \in createCandidates(before, PrimaryPath, input) :
                \E c \in {createWorktree(before, PrimaryPath, input, candidate)} :
                    /\ Len(c.w.worktrees) <= MaxWorktrees
                    /\ Cardinality(timers \cup c.w.queued) <= MaxTimers
                    /\ Install(c.w)
                    /\ UNCHANGED calls
                    /\ result' = [ op |-> "create", directory |-> PrimaryPath, input |-> input,
                                   before |-> before, err |-> c.err, value |-> c.value,
                                   localBranch |-> c.localBranch, log |-> c.w.log ]

\* One removeWorktree call, from its first statement to its return or throw.
StepRemove ==
    /\ result = Null
    /\ \E input \in StepRemoveInputs, fault \in StepFaults \ {"reset"} :
        \E before \in {Faulty(World, fault)} :
            \E r \in {removeWorktree(before, PrimaryPath, input)} :
                /\ Install(r.w)
                /\ UNCHANGED calls
                /\ result' = [ op |-> "remove", directory |-> PrimaryPath, input |-> input,
                               before |-> before, err |-> r.err, value |-> r.value,
                               log |-> r.w.log ]

NextSteps == StepCreate \/ StepRemove \/ StartScripts \/ Return

SpecSteps == InitSteps /\ [][NextSteps]_vars

(***************************************************************************)
(* The merge or rebase in progress that a status reports.                  *)
(***************************************************************************)
\* s.replace(sub, rep): the first occurrence only
ReplaceFirst(s, sub, rep) ==
    IF ~Includes(s, sub) THEN s
    ELSE Slice(s, 0, IndexOfString(s, sub)) \o rep
            \o Substring(s, IndexOfString(s, sub) + Len(sub))

\* The files of a rebase-merge or rebase-apply directory, None for a file not there;
\* a file that cannot be read reads as ''.
RebaseDirectories ==
    [ headName : {None, Some("refs/heads/topic\n"), Some("refs/heads/\n")},
      onto : {None, Some("fedcba9876543210\n"), Some(" \n")} ]

\* What git keeps of the operation in progress in the git directory of a working tree
GitDirectories ==
    [ MERGE_HEAD : {None, Some(""), Some(" \n"), Some("0123456789abcdef\n")},
      MERGE_MSG : {None, Some("Merge branch 'feat'\n\n# Conflicts:\n#\ta.txt\n")},
      rebaseMerge : {None} \cup { Some(d) : d \in {r \in RebaseDirectories : r.onto # None} },
      rebaseApply : {None} \cup { Some(d) : d \in {r \in RebaseDirectories : r.headName # None} } ]

\* Where the git directory of the working tree is: <directory>/.git itself, or, for a
\* linked worktree, the directory that the file <directory>/.git points to.
GitDirectoryPlaces == {"dotgit", "linked"}

\* fs.promises.readFile(...).catch(() => '')
ReadOrEmpty(file) == IF file = None THEN "" ELSE file[1]

\* checkInProgressOperations: D is what the git directory of the working tree holds and
\* place tells where it is.  The result has a field only where the code assigns one.
checkInProgressOperations(D, place) ==
    LET seen == place = "dotgit"
        mergeHeadExists == seen /\ D.MERGE_HEAD # None
        headSha == Slice(Trim(ReadOrEmpty(D.MERGE_HEAD)), 0, 7)
        mergeMsg == ReadOrEmpty(D.MERGE_MSG)
        merging == IF mergeHeadExists /\ headSha # ""
                   THEN [ mergeInProgress |->
                            [head |-> headSha, message |-> SplitLines(mergeMsg)[1]] ]
                   ELSE << >>
        rebaseMergeExists == seen /\ D.rebaseMerge # None
        rebaseApplyExists == seen /\ D.rebaseApply # None
        rebaseDir == IF rebaseMergeExists THEN D.rebaseMerge[1] ELSE D.rebaseApply[1]
        headNameTrimmed == ReplaceFirst(Trim(ReadOrEmpty(rebaseDir.headName)), "refs/heads/", "")
        ontoTrimmed == Slice(Trim(ReadOrEmpty(rebaseDir.onto)), 0, 7)
        rebasing == IF (rebaseMergeExists \/ rebaseApplyExists)
                        /\ (headNameTrimmed # "" \/ ontoTrimmed # "")
                    THEN [ rebaseInProgress |->
                            [headName |-> headNameTrimmed, onto |-> ontoTrimmed] ]
                    ELSE << >>
    IN  merging @@ rebasing

\* getGitStatus with the state of the operation in progress: statusExit is the exit code
\* of `git status --porcelain=v1 -b -uall`
getGitStatusIn(R, adapter, statusExit, D, place) ==
    IF AdapterPresent(adapter) THEN getGitStatus(R, adapter) @@ checkInProgressOperations(D, place)
    ELSE IF statusExit # 0 THEN NoStatus
    ELSE getGitStatusRaw(R) @@ checkInProgressOperations(D, place)

\* One getGitStatus call on a working tree
ProgressCall ==
    \E D \in GitDirectories, place \in GitDirectoryPlaces, adapter \in {"absent", "healthy"},
       statusExit \in {0, 128} :
        Computed([ op |-> "status", gitDirectory |-> D, place |-> place, adapter |-> adapter,
                   statusExit |-> statusExit,
                   value |-> getGitStatusIn(FreshRepository, adapter, statusExit, D, place) ])

NextProgress == ProgressCall \/ Return

SpecProgress == InitPure /\ [][NextProgress]_vars

(***************************************************************************)
(* The branches a worktree can be made for.                                *)
(***************************************************************************)
\* Repositories with some local branches, one of them checked out or the HEAD detached,
\* and some remote-tracking branches
BranchRepositories ==
    { [FreshRepository EXCEPT
            !.head = head,
            !.branches = [b \in locals |-> FirstCommit],
            !.remoteBranches = [r \in remote |-> FirstCommit],
            !.tracking = [b \in (IF "origin/main" \in remote THEN {"main"} ELSE {})
                            |-> "origin/main"]] :
        head \in {"main", ""}, locals \in {{"main"}, {"main", "feat"}, {"main", "feat", "topic"}},
        remote \in SUBSET {"origin/main", "origin/feat"} }

\* `git worktree list --porcelain` as listGitWorktrees returns it: the worktree of the
\* repository with the branch of HEAD, and the linked worktrees with theirs
WorktreeListOf(R, linked) ==
    { [path |-> PrimaryPath, branch |-> IF R.head = "" THEN "" ELSE "refs/heads/" \o R.head] }
        \cup { [path |-> "/data/opencode/worktree/a3f/" \o b, branch |-> "refs/heads/" \o b] :
                b \in linked }

\* getAvailableBranchesForWorktree: the details of the listed names that do not start
\* with 'remotes/' and are the branch of no worktree
getAvailableBranchesForWorktree(R, adapter, listed) ==
    LET branches == getGitBranches(R, adapter)
        checkedOutBranches == { StripPrefix(wt.branch, "refs/heads/") :
                                    wt \in { w \in listed : w.branch # "" } }
    IN  { branches.branches[name] :
            name \in { n \in branches.all :
                        /\ ~StartsWith(n, "remotes/")
                        /\ n \notin checkedOutBranches
                        /\ n \in DOMAIN branches.branches } }

BranchesCall ==
    \E R \in BranchRepositories, adapter \in {"absent", "healthy"} :
        Computed([ op |-> "branches", repository |-> R, adapter |-> adapter,
                   value |-> getGitBranches(R, adapter) ])

AvailableCall ==
    \E R \in BranchRepositories, adapter \in {"absent", "healthy"} :
        \E linked \in SUBSET ((DOMAIN R.branches) \ {R.head}) :
            Computed([ op |-> "available", repository |-> R, adapter |-> adapter,
                       listed |-> WorktreeListOf(R, linked),
                       value |-> getAvailableBranchesForWorktree(R, adapter,
                                                                 WorktreeListOf(R, linked)) ])

NextBranches == BranchesCall \/ AvailableCall \/ Return

SpecBranches == InitPure /\ [][NextBranches]_vars

(***************************************************************************)
(* Callers of createWorktree whose calls overlap, with the update of the   *)
(* project record taken at its awaits: updateProjectSandboxes reads the    *)
(* storage file, and writes it back in a later turn of the event loop.     *)
(* Nothing holds the file between the two.                                 *)
(***************************************************************************)
\* git worktree add and reset --hard of the planned call
RegistryPopulate(p) ==
    /\ calls[p] # Null
    /\ calls[p].pc = "planned"
    /\ \E c \in {createUntilPopulated(World, calls[p].plan, calls[p].input)} :
        /\ Len(c.w.worktrees) <= MaxRaceWorktrees
        /\ Install(c.w)
        /\ calls' = [calls EXCEPT ![p] =
                        [@ EXCEPT !.pc = IF c.err # "" THEN "done" ELSE "populated",
                                  !.outcome = [err |-> c.err, value |-> Null]]]
    /\ UNCHANGED result

\* readFile of the storage file: the call holds the record as it is now
RegistryRead(p) ==
    /\ calls[p] # Null
    /\ calls[p].pc = "populated"
    /\ calls' = [calls EXCEPT ![p] = [seen |-> project] @@ [@ EXCEPT !.pc = "read"]]
    /\ UNCHANGED << worktreeVars, gitConfig, repository, extensionVars, timers, result >>

\* writeFile of the storage file: the record the call read, with its path added
RegistryWrite(p) ==
    /\ calls[p] # Null
    /\ calls[p].pc = "read"
    /\ Install(syncProjectSandboxAdd([World EXCEPT !.project = calls[p].seen],
                                     calls[p].plan.projectID, calls[p].plan.primaryWorktree,
                                     calls[p].plan.directory))
    /\ calls' = [calls EXCEPT ![p] = [@ EXCEPT !.pc = "synced"]]
    /\ UNCHANGED result

\* The upstream configuration and the start scripts
RegistryFinish(p) ==
    /\ calls[p] # Null
    /\ calls[p].pc = "synced"
    /\ \E c \in {createAfterSync(World, calls[p].plan, calls[p].input)} :
        /\ Cardinality(timers \cup c.w.queued) <= MaxTimers
        /\ Install(c.w)
        /\ calls' = [calls EXCEPT ![p] =
                        [@ EXCEPT !.pc = "done", !.outcome = [err |-> c.err, value |-> c.value]]]
    /\ UNCHANGED result

NextRegistry ==
    \/ \E p \in 1..MaxCalls : CallBegin(p)
    \/ \E p \in 1..MaxCalls : CallPlan(p)
    \/ \E p \in 1..MaxCalls : RegistryPopulate(p)
    \/ \E p \in 1..MaxCalls : RegistryRead(p)
    \/ \E p \in 1..MaxCalls : RegistryWrite(p)
    \/ \E p \in 1..MaxCalls : RegistryFinish(p)
    \/ \E p \in 1..MaxCalls : CallReturn(p)
    \/ StartScripts

SpecRegistry == InitCalls /\ [][NextRegistry]_vars

(***************************************************************************)
(* A series of createWorktree and removeWorktree calls, one after the      *)
(* other, every write of the project record succeeding.  `calls` is the    *)
(* ledger of the series: the paths createWorktree has returned and that no *)
(* removeWorktree call has since left without a worktree.  `git branch -D` *)
(* may fail, a worktree may be removed outside the service, and a target   *)
(* is given as git lists it or with a trailing slash.                      *)
(***************************************************************************)
\* Local branches made by earlier calls from which on the series makes no further
\* createWorktree call.
MaxSeriesBranches == 2

SeriesInputs ==
    { RaceInput("new", "demo", "", "", ""),
      RaceInput("new", "other", "", "", ""),
      RaceInput("existing", "demo", "", "feat", "") }

\* The spellings of a path the series uses: the path, and the path with a slash after it
SeriesSpellings(path) == {path, path \o "/"}

InitSeries ==
    /\ marker = ProjectId
    /\ roots = {ProjectId}
    /\ heads = {"main", "feat"}
    /\ remoteRefs = {}
    /\ remotes = [n \in {"origin"} |-> ServerUrl]
    /\ worktrees = << [worktree |-> PrimaryPath, branchRef |-> "refs/heads/main"] >>
    /\ dirs = {PrimaryPath}
    /\ project = Null
    /\ branchConfig = [b \in {} |-> Null]
    /\ gitConfig = NoIdentity
    /\ repository = FreshRepository
    /\ gitApi = NoGitApi
    /\ gitExtensionEnabled = FALSE
    /\ vscodeGit = EnabledExtension
    /\ calls = {}
    /\ timers = {}
    /\ result = Null

SeriesCreate ==
    /\ result = Null
    /\ Cardinality(heads \ {"main", "feat"}) < MaxSeriesBranches
    /\ \E input \in SeriesInputs :
        \E candidate \in createCandidates(World, PrimaryPath, input) :
            \E c \in {createWorktree(World, PrimaryPath, input, candidate)} :
                /\ Len(c.w.worktrees) <= MaxRaceWorktrees
                /\ Cardinality(timers \cup c.w.queued) <= MaxTimers
                /\ Install(c.w)
                /\ calls' = IF c.err = "" THEN calls \cup {c.value.path} ELSE calls
                /\ result' = [op |-> "create", input |-> input, err |-> c.err, value |-> c.value]

\* detached tells whether the call leaves the target without a worktree in the
\* repository: it removed the worktree, or found it without one.
SeriesRemove ==
    /\ result = Null
    /\ \E path \in (WorktreePaths \cup calls) \ {PrimaryPath}, d \in BOOLEAN, branchOk \in BOOLEAN :
        \E target \in SeriesSpellings(path) :
            \E before \in {[World EXCEPT !.branchOk = branchOk]} :
                \E r \in {removeWorktree(before, PrimaryPath,
                                         [directory |-> target, deleteLocalBranch |-> d])} :
                    \E detached \in {\A i \in 1..Len(r.w.worktrees) :
                                        r.w.worktrees[i].worktree # path} :
                        /\ Install(r.w)
                        /\ calls' = IF detached THEN calls \ {path} ELSE calls
                        /\ result' = [ op |-> "remove", target |-> target, path |-> path,
                                       deleteLocalBranch |-> d, branchOk |-> branchOk,
                                       listed |-> path \in WorktreePaths,
                                       detached |-> detached, err |-> r.err, value |-> r.value ]

\* `git worktree remove --force` run by the user, outside the service
SeriesDetach ==
    /\ result = Null
    /\ \E i \in 2..Len(worktrees) :
        /\ InstallRepo(GitWorktreeRemove(World, worktrees[i].worktree).w)
        /\ UNCHANGED << gitConfig, repository, extensionVars, calls, timers, result >>

NextSeries == SeriesCreate \/ SeriesRemove \/ SeriesDetach \/ StartScripts \/ Return

SpecSeries == InitSeries /\ [][NextSeries]_vars

(***************************************************************************)
(* createWorktree called with long worktree names, in a repository where   *)
(* the name may already be taken by an earlier call.                       *)
(***************************************************************************)
\* Worktrees of the repository, the primary one included, from which on this
\* specification makes no further createWorktree call.
MaxNameWorktrees == 3

\* The worktree names asked for.
NameInputs ==
    { pre \o Pad(n) \o mid \o post :
        pre \in {"", "-"},
        n \in SlugPads,
        mid \in {"", "-", "!"},
        post \in {"", "b", "-"} }

NameCreate ==
    /\ result = Null
    /\ Len(worktrees) < MaxNameWorktrees
    /\ \E worktreeName \in NameInputs :
        \E input \in {RaceInput("new", worktreeName, "", "", "")} :
            \E candidate \in createCandidates(World, PrimaryPath, input) :
                \E c \in {createWorktree(World, PrimaryPath, input, candidate)} :
                    /\ Install(c.w)
                    /\ UNCHANGED calls
                    /\ result' = [ op |-> "create", input |-> input, taken |-> Len(worktrees) > 1,
                                   err |-> c.err, value |-> c.value ]

NextNames == NameCreate \/ StartScripts \/ Return

SpecNames == InitPure /\ [][NextNames]_vars

(***************************************************************************)
(* Properties.                                                             *)
(***************************************************************************)
TypeOK ==
    \/ result = Null
    \/ result.op \in {"validate", "create", "remove", "merge", "rebase", "continueMerge",
                      "continueRebase", "slug", "parse", "setIdentity", "exec", "detachHead",
                      "getGitStatus", "getGitBranches", "checkoutBranch", "createBranch",
                      "deleteGitBranch", "getGitFileDiff", "revertGitFile", "createGitCommit",
                      "gitPull", "gitFetch", "getCurrentGitIdentity", "setGitIdentity",
                      "resolve", "store", "spawn"}

Called(op) == result # Null /\ result.op = op

Issued(log, verb) == \E i \in 1..Len(log) : log[i][1] = verb

Listed(list, entry) == \E i \in 1..Len(list) : list[i] = entry

\* C1: validateWorktreeCreate leaves the file system (the project-ID marker file under
\* .git included), the local branches, the remote-tracking refs, the remote
\* configuration and the project record exactly as they were before the call.
C1_ValidateChangesNothing ==
    Called("validate") => SameWorld(result.before, World)

BranchFailure(err) ==
    \/ StartsWith(err, "Branch not found")
    \/ StartsWith(err, "Remote branch not found")
    \/ StartsWith(err, "Branch already exists")
    \/ StartsWith(err, "Branch is already checked out")
    \/ StartsWith(err, "Start ref not found")
    \/ StartsWith(err, "fatal: a branch named")
    \/ StartsWith(err, "fatal: invalid reference")
    \/ StartsWith(err, "fatal: couldn't find remote ref")
    \/ Includes(err, "is already checked out at")

\* C2: when validateWorktreeCreate returns ok=true, createWorktree with the same request
\* on the repository as validation left it does not fail with a branch-not-found,
\* branch-already-exists, branch-in-use or start-ref-not-found error, a failure of
\* `worktree add` for one of those reasons included.
C2_ValidatedCreateFindsItsBranches ==
    Called("validate") /\ result.ok =>
        \A candidate \in createCandidates(World, result.directory, result.input) :
            ~BranchFailure(createWorktree(World, result.directory, result.input, candidate).err)

Taxonomy ==
    { "branch_not_found", "branch_exists", "branch_in_use", "start_ref_not_found",
      "remote_unreachable", "remote_not_found", "invalid_remote_config", "upstream_incomplete" }

\* C3: whenever validateWorktreeCreate returns an error with a code of its taxonomy,
\* createWorktree with the same request on the same repository raises an error and
\* returns no worktree.
C3_RejectedCreateThrows ==
    Called("validate") /\ (\E i \in 1..Len(result.errors) : result.errors[i].code \in Taxonomy) =>
        \A candidate \in createCandidates(World, result.directory, result.input) :
            createWorktree(World, result.directory, result.input, candidate).err # ""

OneBranchPerWorktree ==
    \A i, j \in 1..Len(worktrees) :
        i # j /\ worktrees[i].branchRef # "" => worktrees[i].branchRef # worktrees[j].branchRef

\* C4 as stated: in both modes createWorktree issues no `worktree add` when the branch it
\* resolved is checked out in a listed worktree; it throws 'Branch is already checked out
\* in <path>', and no reachable state has two worktrees on one branch.
C4_CheckedOutBranchIsReported ==
    /\ Called("create") /\ result.localBranch # ""
            /\ CheckedOutAt(result.before, result.localBranch) # Null =>
        /\ ~Issued(result.log, "worktree add")
        /\ result.err = "Branch is already checked out in "
                            \o CheckedOutAt(result.before, result.localBranch).worktree
    /\ OneBranchPerWorktree

\* C4: createWorktree issues no `worktree add` and returns no worktree when the branch it
\* resolved is checked out in a listed worktree: in existing mode it throws 'Branch is
\* already checked out in <path>', in new mode 'Branch already exists: <branch>'; and no
\* reachable state has two worktrees on one branch.
C4_NoWorktreeAddOnCheckedOutBranch ==
    /\ Called("create") /\ result.localBranch # ""
            /\ CheckedOutAt(result.before, result.localBranch) # Null =>
        /\ ~Issued(result.log, "worktree add")
        /\ result.value = Null
        /\ result.err = IF InputMode(result.input) = "existing"
                        THEN "Branch is already checked out in "
                                \o CheckedOutAt(result.before, result.localBranch).worktree
                        ELSE "Branch already exists: " \o result.localBranch
    /\ OneBranchPerWorktree

\* An existing-mode request for a branch that a linked worktree has checked out.
C4_Witness ==
    /\ Called("create")
    /\ result.input.mode = "existing"
    /\ result.localBranch = "feat"
    /\ CheckedOutAt(result.before, "feat") # Null
    /\ result.err = "Branch is already checked out in "
                        \o CheckedOutAt(result.before, "feat").worktree
    /\ Len(worktrees) = 2

\* C5: removeWorktree for a target whose canonical path is that of the primary worktree
\* fails with 'Cannot remove the primary workspace' whatever deleteLocalBranch and the
\* directory of the repository the call is made from are, and it runs no worktree
\* removal, no branch deletion, no directory deletion and no write of the project record.
C5_PrimaryWorkspaceIsKept ==
    Called("remove")
        /\ resolveWorktreeProjectContext(result.before, result.directory).err = ""
        /\ RealPath(pathResolve(normalizeDirectoryPath(result.input.directory))) = PrimaryPath =>
            /\ result.err = "Cannot remove the primary workspace"
            /\ \A verb \in {"worktree remove", "branch -D", "rm", "store write", "store write failed"} :
                    ~Issued(result.log, verb)
            /\ worktrees = result.before.worktrees
            /\ heads = result.before.heads
            /\ dirs = result.before.dirs
            /\ project = result.before.project

\* The primary worktree named through a symbolic link, from a linked worktree, with the
\* branch deletion asked for or not.
C5_Witness ==
    /\ Called("remove")
    /\ result.input.directory = LinkPath
    /\ result.input.deleteLocalBranch
    /\ result.err = "Cannot remove the primary workspace"
    /\ Len(worktrees) = 2

Detached(W, target) ==
    /\ target # ""
    /\ ~checkPathExists(W, target)
    /\ \A i \in 1..Len(W.worktrees) : W.worktrees[i].worktree # pathResolve(target)

\* C6 as stated: removeWorktree for a path that is missing from disk and absent from
\* `worktree list` returns true, and afterwards the path is not in the project record's
\* sandboxes.
C6_DetachedPathIsDeregistered ==
    Called("remove")
        /\ resolveWorktreeProjectContext(result.before, result.directory).err = ""
        /\ Detached(result.before, normalizeDirectoryPath(result.input.directory)) =>
            /\ result.err = ""
            /\ result.value = TRUE
            /\ project = Null
                \/ ~Listed(project.sandboxes, normalizeDirectoryPath(result.input.directory))

\* C6: removeWorktree for a path that is missing from disk and absent from `worktree
\* list` returns true; when the project record can be written the path is afterwards not
\* in its sandboxes, and when it cannot the record stays as it was.
C6_DetachedPathIsDeregisteredIfWritable ==
    Called("remove")
        /\ resolveWorktreeProjectContext(result.before, result.directory).err = ""
        /\ Detached(result.before, normalizeDirectoryPath(result.input.directory)) =>
            /\ result.err = ""
            /\ result.value = TRUE
            /\ result.storeOk =>
                /\ project # Null
                /\ ~Listed(project.sandboxes, normalizeDirectoryPath(result.input.directory))
            /\ ~result.storeOk => project = result.before.project

\* A registered sandbox with no directory and no worktree record is removed.
C6_Witness ==
    /\ Called("remove")
    /\ result.storeOk
    /\ normalizeDirectoryPath(result.input.directory) = StalePath
    /\ Detached(result.before, StalePath)
    /\ result.before.project # Null
    /\ Listed(result.before.project.sandboxes, StalePath)
    /\ result.value = TRUE
    /\ ~Listed(project.sandboxes, StalePath)

ControllerOps == {"merge", "rebase", "continueMerge", "continueRebase"}

\* C7: every call of merge, rebase, continueMerge and continueRebase ends in exactly one
\* of three outcomes: {success:true, conflict:false} when and only when git exited with
\* code 0, {success:false, conflict:true, conflictFiles} when the exit code is nonzero
\* and the output is classified as a conflict, a thrown error otherwise; no conflict is
\* thrown and no error is thrown on exit code 0.
C7_ThreeOutcomes ==
    result # Null /\ result.op \in ControllerOps =>
        LET o == result.outcome
            exitZero == result.proc.kind = "exit" /\ result.proc.code = 0
            completed == ~o.threw /\ o.success /\ ~o.conflict
            conflicted == ~o.threw /\ ~o.success /\ o.conflict
        IN  /\ completed \/ conflicted \/ o.threw
            /\ completed <=> exitZero
            /\ conflicted => ~exitZero
            /\ o.threw => ~exitZero /\ ~o.conflict

Output(proc) == toLowerCase(execGit(proc).stdout \o execGit(proc).stderr)

\* C8 as stated: on a nonzero exit merge and rebase report a conflict if and only if the
\* lower-cased stdout+stderr contains 'conflict', 'could not apply' or 'automatic merge
\* failed'; otherwise they throw an error carrying the raw stderr.
C8_OneClassification ==
    result # Null /\ result.op \in {"merge", "rebase"} /\ execGit(result.proc).exitCode # 0 =>
        LET o == result.outcome
            phrase == \/ Includes(Output(result.proc), "conflict")
                      \/ Includes(Output(result.proc), "could not apply")
                      \/ Includes(Output(result.proc), "automatic merge failed")
        IN  /\ (~o.threw /\ o.conflict /\ ~o.success) <=> phrase
            /\ ~phrase => o.threw /\ o.message = execGit(result.proc).stderr

\* C8: on a nonzero exit merge reports a conflict if and only if the lower-cased
\* stdout+stderr contains 'conflict' or 'automatic merge failed', rebase if and only if
\* it contains 'conflict' or 'could not apply'; otherwise the call throws an error whose
\* message is the raw stderr, or 'Merge failed' / 'Rebase failed' when stderr is empty.
C8_ClassificationPerCommand ==
    result # Null /\ result.op \in {"merge", "rebase"} /\ execGit(result.proc).exitCode # 0 =>
        LET o == result.outcome
            stderr == execGit(result.proc).stderr
            phrase == \/ Includes(Output(result.proc), "conflict")
                      \/ IF result.op = "merge"
                         THEN Includes(Output(result.proc), "automatic merge failed")
                         ELSE Includes(Output(result.proc), "could not apply")
            fallback == IF result.op = "merge" THEN "Merge failed" ELSE "Rebase failed"
        IN  /\ (~o.threw /\ o.conflict /\ ~o.success) <=> phrase
            /\ ~phrase => o.threw /\ o.message = (IF stderr # "" THEN stderr ELSE fallback)

\* A rebase that stopped at a commit it could not apply is a conflict.
C8_Witness ==
    /\ Called("rebase")
    /\ result.proc.kind = "exit" /\ result.proc.code = 1
    /\ result.proc.stderr = "error: could not apply 1a2b"
    /\ result.outcome.conflict
    /\ ~result.outcome.threw

\* C9: when merge or rebase reports a conflict, conflictFiles is the list, in status
\* order, of the paths of the `git status --porcelain` lines whose two-character prefix
\* is UU, AA or DD; 'CONFLICT (content): Merge conflict in x.txt' with a nonzero exit and
\* status 'UU x.txt' yields {success:false, conflict:true, conflictFiles:['x.txt']}.
C9_ConflictFilesFromStatus ==
    result # Null /\ result.op \in {"merge", "rebase"} =>
        LET o == result.outcome
            unmerged == SelectSeq(result.statusProc.entries, LAMBDA e : e.xy \in {"UU", "AA", "DD"})
        IN  /\ ~o.threw /\ o.conflict =>
                o.conflictFiles = [i \in 1..Len(unmerged) |-> unmerged[i].path]
            /\ ( /\ result.proc.kind = "exit" /\ result.proc.code # 0
                 /\ result.proc.stdout = "CONFLICT (content): Merge conflict in x.txt"
                 /\ result.statusProc.stdout = "UU x.txt\n" ) =>
                    /\ ~o.threw /\ ~o.success /\ o.conflict
                    /\ o.conflictFiles = << "x.txt" >>

\* A merge with two unmerged files among others.
C9_Witness ==
    /\ Called("merge")
    /\ result.proc.stdout = "CONFLICT (content): Merge conflict in x.txt"
    /\ result.proc.kind = "exit" /\ result.proc.code = 1
    /\ result.statusProc.stdout = "?? UU\nDD x.txt\n"
    /\ result.outcome.conflictFiles = << "x.txt" >>

DemoPath == "/data/opencode/worktree/a3f/demo"

DemoRequest(r) ==
    /\ r.op = "create"
    /\ InputMode(r.input) = "new"
    /\ r.input.worktreeName = "demo"
    /\ r.input.branchName = ""

DemoFree(W) == DemoPath \notin W.dirs /\ "openchamber/demo" \notin W.heads

\* C10: createWorktree in new mode with worktreeName 'demo' and no branchName returns
\* {name:'demo', branch:'openchamber/demo'} when neither <worktreeRoot>/demo nor the
\* branch openchamber/demo exists; when 'demo' is taken the returned name differs from
\* 'demo', has the form demo-<adjective>-<noun> with words of the two fixed lists, and
\* the returned branch is openchamber/<that name>.
C10_DemoNames ==
    result # Null /\ DemoRequest(result) =>
        /\ result.err = "" /\ DemoFree(result.before) =>
            /\ result.value.name = "demo"
            /\ result.value.branch = "openchamber/demo"
            /\ result.value.path = DemoPath
        /\ result.err = "" /\ ~DemoFree(result.before) =>
            /\ result.value.name # "demo"
            /\ \E a \in 1..Len(OPENCODE_ADJECTIVES), n \in 1..Len(OPENCODE_NOUNS) :
                    result.value.name = "demo-" \o OPENCODE_ADJECTIVES[a] \o "-" \o OPENCODE_NOUNS[n]
            /\ result.value.branch = "openchamber/" \o result.value.name
        /\ ( /\ DemoFree(result.before)
             /\ result.directory = PrimaryPath
             /\ result.input.startRef = ""
             /\ ~result.input.setUpstream
             /\ result.input.ensureRemoteName = "" ) => result.err = ""

\* 'demo' is taken by a branch that outlived its worktree; another name is returned.
C10_Witness ==
    /\ result # Null /\ DemoRequest(result)
    /\ "openchamber/demo" \in result.before.heads
    /\ DemoPath \notin result.before.dirs
    /\ result.err = ""
    /\ result.value.name # "demo"
(***************************************************************************)
(* C11                                                                     *)
(***************************************************************************)
SlugShape(s) ==
    /\ Len(s) <= SlugMaxLen
    /\ \A i \in 0..(Len(s) - 1) : CharAt(s, i) \in SlugChars
    /\ ~Includes(s, "--")
    /\ ~StartsWith(s, "-")
    /\ ~(Len(s) > 0 /\ CharAt(s, Len(s) - 1) = "-")

\* C11: for every input the slug of the service and the slug of the UI have at most 80
\* characters, all of them among A-Z, a-z, 0-9, '.', '_' and '-', hold no two hyphens in
\* a row and neither start nor end with a hyphen.
C11_SlugIsClean ==
    Called("slug") => SlugShape(result.service) /\ SlugShape(result.ui)

(***************************************************************************)
(* C12                                                                     *)
(***************************************************************************)
\* value has no '/', or its first '/' is its first or its last character
NoInnerSlash(value) ==
    \/ IndexOf(value, "/") <= 0
    \/ IndexOf(value, "/") = Len(value) - 1

\* C12 as stated: the string is split at its first '/', and the result is null exactly
\* when it has no '/' or its first '/' is its first or last character.
C12_SplitsAtFirstSlash ==
    Called("parse") =>
        IF NoInnerSlash(result.value)
        THEN result.parsed = Null
        ELSE /\ result.parsed # Null
             /\ result.parsed.remote = Slice(result.value, 0, IndexOf(result.value, "/"))
             /\ result.parsed.branch = Substring(result.value, IndexOf(result.value, "/") + 1)

\* The remote-branch name of a string: the string trimmed, without a leading
\* 'refs/remotes/' or 'remotes/'.
RemoteBranchName(value) ==
    IF StartsWith(Trim(value), "refs/remotes/") THEN Substring(Trim(value), Len("refs/remotes/"))
    ELSE IF StartsWith(Trim(value), "remotes/") THEN Substring(Trim(value), Len("remotes/"))
    ELSE Trim(value)

\* C12: parseRemoteBranchRef splits the remote-branch name of its argument (the argument
\* trimmed, without a leading 'refs/remotes/' or 'remotes/') at its first '/': the remote
\* is non-empty and holds no '/', the branch is non-empty, remote/branch is the name and
\* fullRef is 'refs/remotes/' followed by the name.  It returns null when the name has no
\* '/' or its first '/' is its first or last character, and so for every argument that
\* has no '/' or whose first '/' is its first or last character.
C12_SplitsNameAtFirstSlash ==
    Called("parse") =>
        /\ NoInnerSlash(result.value) => result.parsed = Null
        /\ (result.parsed = Null) <=> NoInnerSlash(RemoteBranchName(result.value))
        /\ result.parsed # Null =>
            /\ result.parsed.remote # "" /\ ~Includes(result.parsed.remote, "/")
            /\ result.parsed.branch # ""
            /\ result.parsed.remote \o "/" \o result.parsed.branch = RemoteBranchName(result.value)
            /\ result.parsed.remoteRef = RemoteBranchName(result.value)
            /\ result.parsed.fullRef = "refs/remotes/" \o RemoteBranchName(result.value)

C12_Witness ==
    /\ Called("parse")
    /\ result.value = "origin/feature/x"
    /\ result.parsed # Null
    /\ result.parsed.remote = "origin"
    /\ result.parsed.branch = "feature/x"
    /\ result.parsed.fullRef = "refs/remotes/origin/feature/x"

(***************************************************************************)
(* C13                                                                     *)
(***************************************************************************)
\* C13: setGitIdentity called with an SSH key path that holds a denylisted character
\* throws, with no SSH command built and no configuration write attempted: user.name,
\* user.email and core.sshCommand are as before, with or without the adapter.
C13_DangerousKeyIsRejected ==
    (Called("setIdentity") /\ HasDangerousChar(result.call.sshKey)) =>
        /\ result.err # ""
        /\ result.value = Null
        /\ result.sshCommand = None
        /\ result.log = << >>
        /\ gitConfig = result.before

C13_Witness ==
    /\ Called("setIdentity")
    /\ result.call.sshKey = "; rm -rf /"
    /\ result.call.repo
    /\ result.before = OldIdentity
    /\ result.err # ""
    /\ gitConfig = OldIdentity

(***************************************************************************)
(* C14                                                                     *)
(***************************************************************************)
\* C14: execGit always resolves.  For a subprocess that exited with a nonzero status it
\* resolves with that status and the captured stdout and stderr; for a failure to spawn
\* or to build the environment it resolves with exitCode 1, stderr the reason of the
\* failure and an empty stdout, whatever had been captured.
C14_ExecGitResolves ==
    Called("exec") =>
        /\ DOMAIN result.outcome = {"stdout", "stderr", "exitCode"}
        /\ (result.proc.kind = "exit" /\ result.proc.code # 0) =>
                /\ result.outcome.exitCode = result.proc.code
                /\ result.outcome.stdout = result.proc.stdout
                /\ result.outcome.stderr = result.proc.stderr
        /\ result.proc.kind \in {"error", "env"} =>
                /\ result.outcome.exitCode = 1
                /\ result.outcome.stderr = result.proc.message
                /\ result.outcome.stdout = ""

C14_Witness ==
    /\ Called("exec")
    /\ result.proc.kind = "error"
    /\ result.proc.stdout # ""
    /\ result.outcome = [stdout |-> "", stderr |-> "spawn git ENOENT", exitCode |-> 1]

\* The call of caller p has passed its directory and branch checks.
PassedChecks(p) ==
    /\ calls[p] # Null
    /\ calls[p].pc \in {"planned", "done", "returned"}
    /\ calls[p].plan.err = ""
    /\ calls[p].plan.directory # ""

\* The call of caller p has ended and returns a worktree.
ReturnsWorktree(p) ==
    calls[p] # Null /\ calls[p].pc \in {"done", "returned"} /\ calls[p].outcome.err = ""

\* The call of caller p has ended with the error `worktree add` reported.
FailedAtWorktreeAdd(p) ==
    /\ calls[p] # Null
    /\ calls[p].pc \in {"done", "returned"}
    /\ PassedChecks(p)
    /\ StartsWith(calls[p].outcome.err, "fatal: ")

Ended(p) == calls[p] # Null /\ calls[p].pc \in {"done", "returned"}

\* Two calls that passed their checks for the same directory or the same local branch.
SameTarget(p, q) ==
    /\ PassedChecks(p)
    /\ PassedChecks(q)
    /\ \/ calls[p].plan.directory = calls[q].plan.directory
       \/ calls[p].plan.localBranch = calls[q].plan.localBranch

\* Two requests for the same new-mode name or for the same branch.
SameRequest(p, q) ==
    /\ calls[p] # Null
    /\ calls[q] # Null
    /\ \/ /\ InputMode(calls[p].input) = "new"
          /\ InputMode(calls[q].input) = "new"
          /\ calls[p].input.worktreeName = calls[q].input.worktreeName
       \/ /\ InputMode(calls[p].input) = "new"
          /\ InputMode(calls[q].input) = "new"
          /\ calls[p].input.branchName # ""
          /\ calls[p].input.branchName = calls[q].input.branchName
       \/ /\ InputMode(calls[p].input) = "existing"
          /\ InputMode(calls[q].input) = "existing"
          /\ calls[p].input.existingBranch = calls[q].input.existingBranch

NoSharedWorktree ==
    \A i, j \in 1..Len(worktrees) :
        i # j => /\ worktrees[i].worktree # worktrees[j].worktree
                 /\ (worktrees[i].branchRef # "" => worktrees[i].branchRef # worktrees[j].branchRef)

\* C15, as stated: of two createWorktree calls for the same new-mode name or the same
\* branch that run together, at most one returns a worktree and the other fails with the
\* error thrown at `worktree add`; no two worktrees share a directory or a branch.
C15_AtMostOneReturns ==
    /\ NoSharedWorktree
    /\ \A p, q \in 1..MaxCalls :
        (p # q /\ SameRequest(p, q) /\ Ended(p) /\ Ended(q))
            => /\ ~(ReturnsWorktree(p) /\ ReturnsWorktree(q))
               /\ (ReturnsWorktree(p) /\ PassedChecks(q)) => FailedAtWorktreeAdd(q)

\* C15, amended: of createWorktree calls that run together and pass the checks for the
\* same directory or the same branch, at most one returns a worktree and every other one
\* fails with the error thrown at `worktree add`; and no two worktrees of the repository
\* share a directory or a branch. (A call for the same name that resolves its directory
\* after the first worktree exists gets a suffixed directory and returns a worktree too.)
C15_RaceLosersFailAtAdd ==
    /\ NoSharedWorktree
    /\ \A p, q \in 1..MaxCalls :
        (p # q /\ SameTarget(p, q) /\ Ended(p) /\ Ended(q))
            => /\ ~(ReturnsWorktree(p) /\ ReturnsWorktree(q))
               /\ ReturnsWorktree(p) \/ FailedAtWorktreeAdd(p)
               /\ ReturnsWorktree(q) \/ FailedAtWorktreeAdd(q)

\* Both calls passed the checks for the same directory; one returned a worktree and the
\* other was refused by `worktree add`.
C15_Witness ==
    /\ SameTarget(1, 2)
    /\ calls[1].plan.directory = calls[2].plan.directory
    /\ ReturnsWorktree(1)
    /\ FailedAtWorktreeAdd(2)

\* The worktree the call of caller p returned is still there: its directory, its branch
\* and its entry in the worktree list.
WorktreeKept(p) ==
    /\ calls[p].outcome.value.path \in dirs
    /\ calls[p].outcome.value.branch \in heads
    /\ Listed(worktrees, [ worktree |-> calls[p].outcome.value.path,
                           branchRef |-> "refs/heads/" \o calls[p].outcome.value.branch ])

\* The call that scheduled the task has gone on past the scheduling with its worktree.
ScheduledBy(task, p) ==
    /\ ReturnsWorktree(p)
    /\ calls[p].outcome.value.path = task.directory
    /\ startCommandOf(calls[p].input) = task.startCommand

\* C17: createWorktree returns without waiting for a start script: a start-script task
\* exists, queued or running, only once the call that scheduled it has gone on with its
\* worktree; that call can return whatever the task is doing; and wherever the task is,
\* after a failing or a throwing command included, the value the call returns is the
\* worktree and the worktree, its branch and its entry in the worktree list are in place.
C17_StartScriptsAreDetached ==
    /\ \A task \in timers : \E p \in 1..MaxCalls : ScheduledBy(task, p)
    /\ \A p \in 1..MaxCalls :
        /\ (calls[p] # Null /\ calls[p].pc = "done") => ENABLED CallReturn(p)
        /\ ReturnsWorktree(p) => WorktreeKept(p)

\* A start command failed or threw after the call had returned its worktree.
C17_Witness ==
    \E task \in timers, p \in 1..MaxCalls :
        /\ task.pc \in {"failed", "threw"}
        /\ ScheduledBy(task, p)
        /\ calls[p].pc = "returned"
        /\ WorktreeKept(p)

HasErrorCode(errors, code) == \E i \in 1..Len(errors) : errors[i].code = code

\* The call was a new-mode validation that named a local branch of the repository.
NamesExistingBranch ==
    /\ Called("validate")
    /\ InputMode(result.input) = "new"
    /\ result.input.branchName # ""
    /\ result.input.branchName \in result.before.heads

\* C16: validateWorktreeCreate in new mode with a branchName for which
\* refs/heads/<branchName> exists returns ok=false and its errors list has an entry with
\* code 'branch_exists'.
C16_ExistingBranchIsReported ==
    NamesExistingBranch => (~result.ok /\ HasErrorCode(result.errors, "branch_exists"))

\* A new-mode validation of a request for the existing branch 'feat' reported it.
C16_Witness ==
    /\ NamesExistingBranch
    /\ result.input.branchName = "feat"
    /\ HasErrorCode(result.errors, "branch_exists")

\* The outcomes createWorktree may have from the state the call found, with a working
\* Project Metadata Store.
CreateOutcomesWithStore ==
    { [err |-> c.err, value |-> c.value] :
        c \in { createWorktree([result.before EXCEPT !.storeOk = TRUE], result.directory,
                               result.input, candidate) :
                    candidate \in createCandidates(result.before, result.directory, result.input) } }

RemoveOutcomeWithStore ==
    removeWorktree([result.before EXCEPT !.storeOk = TRUE], result.directory, result.input)

\* C18: a failure of the Project Metadata Store never makes createWorktree or
\* removeWorktree fail: a call made while the store cannot be written ends as the same
\* call with a working store does; once `worktree add` and `reset --hard` (or the git-level
\* removal) have succeeded, the only thing left to do with the store fails silently, and
\* createWorktree returns the worktree and removeWorktree returns true.
C18_StoreFailureIsNotFatal ==
    /\ (Called("create") /\ ~result.storeOk)
            => [err |-> result.err, value |-> result.value] \in CreateOutcomesWithStore
    /\ (Called("remove") /\ ~result.storeOk)
            => /\ result.err = RemoveOutcomeWithStore.err
               /\ result.value = RemoveOutcomeWithStore.value
    /\ (Called("create") /\ Issued(result.log, "store write failed")) => result.err = ""
    /\ (Called("remove") /\ Issued(result.log, "store write failed")) => result.value = TRUE

\* createWorktree returned a worktree although the store could not be written.
C18_Witness ==
    /\ Called("create")
    /\ ~result.storeOk
    /\ Issued(result.log, "store write failed")
    /\ result.err = ""
    /\ result.value # Null

\* removeWorktree returned true although the store could not be written.
C18_RemoveWitness ==
    /\ Called("remove")
    /\ ~result.storeOk
    /\ Issued(result.log, "store write failed")
    /\ result.value = TRUE

DualOperations ==
    { "getGitStatus", "getGitBranches", "checkoutBranch", "createBranch", "deleteGitBranch",
      "getGitFileDiff", "revertGitFile", "createGitCommit", "gitPull", "gitFetch",
      "getCurrentGitIdentity", "setGitIdentity" }

\* What the call that completed last would have returned had a working adapter served it.
AdapterValue ==
    Dual(result.op, result.before, result.config, "healthy", result.args).value

\* C19: with the Structured Repository Adapter absent, every dual-path operation returns
\* from its CLI path what the adapter path would have returned for the same repository.
C19_CliMatchesAdapter ==
    (result # Null /\ result.op \in DualOperations /\ result.adapter = "absent")
        => result.value = AdapterValue

SmallestOf(hashes) == CHOOSE r \in hashes : \A o \in hashes : o = r \/ StrLess(r, o)

\* C20: across context resolutions interleaved with new commits, additional root
\* commits and worktree creations and removals, every resolution yields the same
\* project ID, that ID is the lexicographically smallest root commit hash at the first
\* computation, and a marker file that holds an ID is answered with that ID.
C20_ProjectIdIsStable ==
    Called("resolve") =>
        /\ result.last = result.first
        /\ result.first = SmallestOf(result.rootsWere)
        /\ (Trim(result.markerWas) # "" => result.last = Trim(result.markerWas))

\* C21: a getGitStatus call that follows another one on the same directory with no
\* change of the repository in between returns the same files, ahead and behind.
C21_StatusIsIdempotent ==
    Called("getGitStatus") /\ "previous" \in DOMAIN result /\ result.previous # None =>
        /\ result.value.files = result.previous[1].files
        /\ result.value.ahead = result.previous[1].ahead
        /\ result.value.behind = result.previous[1].behind

NoDuplicates(list) == \A i, j \in 1..Len(list) : list[i] = list[j] => i = j

NoBlanks(list) == \A i \in 1..Len(list) : Trim(list[i]) # ""

HasCreated(record) ==
    /\ record # Null
    /\ "time" \in DOMAIN record
    /\ "created" \in DOMAIN record.time
    /\ record.time.created > 0

C22_DirtyWitness ==
    /\ Called("store") /\ result.written /\ ~result.push
    /\ result.before # Null
    /\ ~NoDuplicates(result.before.sandboxes)
    /\ Len(project.sandboxes) = 1

AgentPresent(env) == env.SSH_AUTH_SOCK # None /\ Trim(env.SSH_AUTH_SOCK[1]) # ""

\* Whether a probe of the agent socket finds one
ProbeFinds(platform, probe) ==
    /\ platform # "win32"
    /\ \/ probe.gpgSock
       \/ Trim(probe.listed) # "" /\ probe.listedIsSocket
       \/ Trim(probe.listed) # "" /\ Trim(probe.relisted) # "" /\ probe.relistedIsSocket

\* C23: every git subprocess and every start command runs with GIT_TERMINAL_PROMPT set
\* to '0'; an SSH_AUTH_SOCK of the ambient environment that names a socket is passed
\* on as it is; and when the probes find no socket the variable is left as the ambient
\* environment has it, unset if it is unset there, and the subprocess is started all
\* the same.
C23_SubprocessNeverPrompts ==
    Called("spawn") /\ (result.kind = "git" \/ result.spawn.spawned) =>
        /\ result.spawn.spawned
        /\ result.spawn.env.GIT_TERMINAL_PROMPT = Some("0")
        /\ (AgentPresent(result.ambient)
                => result.spawn.env.SSH_AUTH_SOCK = result.ambient.SSH_AUTH_SOCK)
        /\ (~AgentPresent(result.ambient) /\ ~ProbeFinds(result.platform, result.probe)
                => result.spawn.env.SSH_AUTH_SOCK = result.ambient.SSH_AUTH_SOCK)

\* A start command run where the ambient environment asks for prompts, has no agent
\* socket, and gpgconf names a path that is no socket before or after the launch
C23_Witness ==
    /\ Called("spawn") /\ result.kind = "start" /\ result.spawn.spawned
    /\ result.ambient.GIT_TERMINAL_PROMPT = Some("1")
    /\ result.ambient.SSH_AUTH_SOCK = None
    /\ result.platform = "linux"
    /\ ~result.probe.gpgSock /\ result.probe.listed # "" /\ ~result.probe.listedIsSocket
    /\ result.probe.relisted # "" /\ ~result.probe.relistedIsSocket
    /\ result.spawn.env.SSH_AUTH_SOCK = None

\* A git subprocess with the agent socket of the ambient environment
C23_PassThroughWitness ==
    /\ Called("spawn") /\ result.kind = "git"
    /\ result.ambient.SSH_AUTH_SOCK = Some(" /tmp/agent.sock")
    /\ result.probe.gpgSock
    /\ result.spawn.env.SSH_AUTH_SOCK = Some(" /tmp/agent.sock")

\* Whether the adapter threw during the call that completed last: getRepository did, or
\* the adapter's calls throw and the operation makes one (getGitStatus reads repo.state only).
AdapterThrew ==
    /\ result # Null /\ result.op \in DualOperations
    /\ \/ result.adapter = "unobtainable"
       \/ result.adapter = "failing" /\ result.op # "getGitStatus"

\* What the call that completed last returns on its CLI path.
CliValue ==
    Dual(result.op, result.before, result.config, "absent", result.args).value

\* C24: when the adapter throws, while the repository is obtained or while the operation
\* is performed, no dual-path operation passes the error to its caller: the CLI path runs
\* and its result is what the operation returns.
C24_AdapterErrorFallsThrough ==
    AdapterThrew => "thrown" \notin DOMAIN result.value /\ result.value = CliValue

\* Where in the commands of a call the commands of the given kinds are
StepsAt(log, verbs) == { i \in 1..Len(log) : log[i][1] \in verbs }

\* Every command of the first kinds comes before every command of the second kinds
StepsInOrder(log, first, then) ==
    \A i \in StepsAt(log, first), j \in StepsAt(log, then) : i < j

RegistrySteps == {"store write", "store write failed"}

UpstreamSteps == {"set-upstream-to", "config"}

\* C25: in a createWorktree run that succeeds, the worktree root is ensured, then
\* `worktree add` runs, then `reset --hard` in the new directory, then the sandbox is
\* added to the project record, then the upstream is configured, and only if setUpstream
\* is true, then the start scripts are queued, which is the last step; and in any run the
\* project record is written to only after `worktree add` and `reset --hard` have both
\* succeeded.
C25_CreationStepsInOrder ==
    (result # Null /\ result.op = "create") =>
        LET log == result.log
            registry == StepsAt(log, RegistrySteps)
            queue == StepsAt(log, {"queue start scripts"})
        IN  /\ result.err = "" =>
                /\ \A verbs \in {{"mkdir"}, {"worktree add"}, {"reset --hard"}, RegistrySteps,
                                 {"queue start scripts"}} :
                        Cardinality(StepsAt(log, verbs)) = 1
                /\ StepsInOrder(log, {"mkdir"}, {"worktree add"})
                /\ StepsInOrder(log, {"worktree add"}, {"reset --hard"})
                /\ StepsInOrder(log, {"reset --hard"}, RegistrySteps)
                /\ StepsInOrder(log, RegistrySteps, UpstreamSteps)
                /\ StepsInOrder(log, UpstreamSteps, {"queue start scripts"})
                /\ queue = {Len(log)}
                /\ \A i \in registry :
                        /\ log[i - 1] = << "reset --hard", result.value.path >>
                        /\ ~result.input.setUpstream => queue = {i + 1}
            /\ StepsAt(log, UpstreamSteps) # {} => result.input.setUpstream
            /\ registry # {} =>
                /\ result.before.resetOk
                /\ \E a \in StepsAt(log, {"worktree add"}), r \in StepsAt(log, {"reset --hard"}) :
                        /\ a < r
                        /\ \A i \in registry : r < i
                        /\ log[a][2] = log[r][2]
                        /\ log[a][2] \in WorktreePaths

\* A run that succeeds with the upstream set after a fetch and the record not written
C25_Witness ==
    /\ result # Null /\ result.op = "create" /\ result.err = ""
    /\ result.input.setUpstream
    /\ StepsAt(result.log, {"set-upstream-to"}) # {}
    /\ StepsAt(result.log, {"store write failed"}) # {}

\* A run in which `reset --hard` fails: the record is not touched
C25_ResetFailedWitness ==
    /\ result # Null /\ result.op = "create" /\ ~result.before.resetOk
    /\ StepsAt(result.log, {"reset --hard"}) # {}
    /\ result.err # ""

C26_LocalWitness ==
    /\ result # Null /\ result.op = "create" /\ InputMode(result.input) = "existing"
    /\ result.err = "" /\ result.value.branch = "feat"
    /\ result.input.existingBranch = "feat"

\* Neither a local branch nor a remote branch after the fetch
C26_NotFoundWitness ==
    /\ result # Null /\ result.op = "create" /\ InputMode(result.input) = "existing"
    /\ result.err = "Remote branch not found: origin/gone"

\* The candidate no try was left for
NoCandidate == [err |-> "Failed to generate a unique worktree name", name |-> "",
                directory |-> "", branch |-> ""]

\* C27: createWorktree looks for a name among at most OPENCODE_WORKTREE_ATTEMPTS (26)
\* candidates, the slug of the preferred name first.  A candidate is taken when its
\* directory under the worktree root does not exist and, unless a new-mode request names
\* its branch, no local branch openchamber/<name> exists; the first such candidate is
\* the one used.  When every candidate is refused the call throws "Failed to generate a
\* unique worktree name" and leaves worktrees, branches, directories and the project
\* record as they were.
C27_NameSelection ==
    (/\ result # Null /\ result.op = "create"
     /\ createContext(result.before, result.directory).err = "") =>
        LET context == createContext(result.before, result.directory)
            W == context.w
            root == context.worktreeRoot
            preferred == Trim(result.input.worktreeName)
            slug == slugWorktreeName(preferred)
            branchName == cleanBranchName(Trim(result.input.branchName))
            explicit == IF InputMode(result.input) = "new" THEN branchName ELSE ""
            free(name) == /\ ~checkPathExists(W, pathJoin(root, name))
                          /\ explicit = "" => ~GitShowRef(W, "refs/heads/openchamber/" \o name)
            names(i) == resolveWorktreeNameCandidates(preferred, i)
            tries == 0..(OPENCODE_WORKTREE_ATTEMPTS - 1)
            exhausted == result.err = NoCandidate.err
            adds == StepsAt(result.log, {"worktree add"})
            chosen(name) == /\ free(name)
                            /\ \E i \in tries : name \in names(i)
                            /\ free(slug) => name = slug
        IN  /\ slug # "" => names(0) = {slug}
            /\ CandidateFrom(W, root, preferred, explicit, OPENCODE_WORKTREE_ATTEMPTS)
                    = {NoCandidate}
            /\ (\A i \in tries : \A name \in names(i) : ~free(name)) => exhausted
            /\ exhausted =>
                /\ \A i \in tries : \E name \in names(i) : ~free(name)
                /\ adds = {}
                /\ worktrees = result.before.worktrees
                /\ heads = result.before.heads
                /\ dirs \ {root} = result.before.dirs \ {root}
                /\ project = result.before.project
            /\ result.err = "" =>
                /\ chosen(result.value.name)
                /\ result.value.path = pathJoin(root, result.value.name)
                /\ explicit = "" /\ InputMode(result.input) = "new" =>
                        result.value.branch = "openchamber/" \o result.value.name
            /\ \A a \in adds : \E name \in UNION { names(i) : i \in tries } :
                    chosen(name) /\ result.log[a][2] = pathJoin(root, name)

\* The slug is taken by a branch of an earlier worktree and the second candidate is used
C27_Witness ==
    /\ result # Null /\ result.op = "create" /\ result.err = ""
    /\ "openchamber/demo" \in result.before.heads
    /\ result.value.name = "demo-brave-cabin"

\* Every candidate is refused
C27_ExhaustedWitness ==
    /\ result # Null /\ result.op = "create" /\ result.err = NoCandidate.err

\* The upstream target a createWorktree request configures: what the request names,
\* else what its start ref or its existing remote branch implies; Null if incomplete.
UpstreamTargetOf(W, input) ==
    LET parsed == IF InputMode(input) = "new"
                  THEN parseRemoteBranchRef(normalizeStartRef(input.startRef))
                  ELSE IF GitShowRef(W, "refs/heads/" \o cleanBranchName(Trim(input.existingBranch)))
                  THEN Null
                  ELSE parseRemoteBranchRef(Trim(input.existingBranch))
    IN  normalizeUpstreamTarget(
            Trim(OrElse(input.upstreamRemote, IF parsed # Null THEN parsed.remote ELSE "")),
            Trim(OrElse(input.upstreamBranch, IF parsed # Null THEN parsed.branch ELSE "")))

\* C28: when createWorktree returns after configuring the upstream (setUpstream true, a
\* local branch, a complete remote/branch target), the upstream was set with `branch
\* --set-upstream-to` if the fetch of the remote branch succeeded, and by writing
\* branch.<name>.remote and branch.<name>.merge if the fetch failed; either way the
\* local branch now tracks the target.
C28_UpstreamAlwaysLinked ==
    (/\ result # Null /\ result.op = "create" /\ result.err = ""
     /\ result.input.setUpstream
     /\ result.localBranch # ""
     /\ UpstreamTargetOf(result.before, result.input) # Null) =>
        LET log == result.log
            target == UpstreamTargetOf(result.before, result.input)
            local == result.localBranch
            registry == StepsAt(log, RegistrySteps)
            fetches == { i \in StepsAt(log, {"fetch"}) : \A r \in registry : r < i }
            fetched == GitFetch(World, target.remote, target.branch).success
            linked(how) == \E i \in StepsAt(log, {how}) :
                              /\ log[i] = << how, local, target.remote, target.branch >>
                              /\ \A f \in fetches : f < i
        IN  /\ \E f \in fetches : log[f] = << "fetch", target.remote, target.branch >>
            /\ IF fetched
               THEN linked("set-upstream-to") /\ StepsAt(log, {"config"}) = {}
               ELSE linked("config") /\ StepsAt(log, {"set-upstream-to"}) = {}
            /\ local \in DOMAIN branchConfig
            /\ branchConfig[local] = [ remote |-> target.remote,
                                       merge |-> "refs/heads/" \o target.branch ]

\* The fetch fails, the remote being unknown, and the two keys are written
C28_Witness ==
    /\ result # Null /\ result.op = "create" /\ result.err = ""
    /\ result.input.setUpstream /\ result.input.upstreamRemote = "fork"
    /\ "fork" \notin DOMAIN remotes
    /\ StepsAt(result.log, {"config"}) # {}
    /\ result.localBranch \in DOMAIN branchConfig

\* The fetch succeeds and the upstream is set by git
C28_FetchedWitness ==
    /\ result # Null /\ result.op = "create" /\ result.err = ""
    /\ result.input.setUpstream /\ result.input.upstreamBranch = "feat"
    /\ StepsAt(result.log, {"set-upstream-to"}) # {}

\* The entry of `worktree list` a removeWorktree call is about, Null if there is none
ListedTarget(call) ==
    findWorktreeEntry(call.before, normalizeDirectoryPath(call.input.directory))

\* C29: when its target is in `worktree list` and is not the primary worktree,
\* removeWorktree issues `worktree remove --force` first, then `branch -D` of the
\* worktree's branch, exactly when deleteLocalBranch is true and the entry has a branch,
\* then takes the path out of the project record, and returns true; no removeWorktree
\* call issues `branch -D` unless deleteLocalBranch is true.
C29_RemovalStepsInOrder ==
    (result # Null /\ result.op = "remove") =>
        LET log == result.log
            entry == ListedTarget(result)
            branchName == cleanBranchName(Trim(OrElse(entry.branchRef, "")))
            removals == StepsAt(log, {"worktree remove"})
            deletions == StepsAt(log, {"branch -D"})
            registry == StepsAt(log, RegistrySteps)
        IN  /\ deletions # {} => result.input.deleteLocalBranch = TRUE
            /\ result.input.deleteLocalBranch # TRUE => heads = result.before.heads
            /\ (entry # Null /\ entry.worktree # PrimaryPath) =>
                /\ result.err = "" /\ result.value = TRUE
                /\ log[1] = << "worktree remove", entry.worktree >>
                /\ removals = {1}
                /\ IF result.input.deleteLocalBranch = TRUE /\ branchName # ""
                   THEN /\ deletions = {2}
                        /\ log[2] = << "branch -D", branchName >>
                        /\ branchName \notin heads
                   ELSE deletions = {}
                /\ registry = {Len(log)}
                /\ Len(log) = 1 + Cardinality(deletions) + 1
                /\ entry.worktree \notin WorktreePaths
                /\ result.before.storeOk =>
                        \A i \in 1..Len(project.sandboxes) : project.sandboxes[i] # entry.worktree

\* A listed worktree is removed with its branch
C29_Witness ==
    /\ result # Null /\ result.op = "remove" /\ result.err = ""
    /\ ListedTarget(result) # Null
    /\ result.input.deleteLocalBranch = TRUE
    /\ StepsAt(result.log, {"branch -D"}) # {}

\* A listed worktree is removed and its branch is kept
C29_KeptWitness ==
    /\ result # Null /\ result.op = "remove" /\ result.err = ""
    /\ ListedTarget(result) # Null
    /\ result.input.deleteLocalBranch = FALSE
    /\ "openchamber/demo" \in heads

\* C30: when its target is in no entry of `worktree list`, removeWorktree takes the path
\* out of the project record, or tries to, and returns true, also when the directory of
\* the target is there and cannot be deleted.
C30_UnlistedIsDeregistered ==
    (/\ result # Null /\ result.op = "remove"
     /\ normalizeDirectoryPath(result.input.directory) # ""
     /\ ListedTarget(result) = Null) =>
        /\ result.err = ""
        /\ result.value = TRUE
        /\ StepsAt(result.log, RegistrySteps) # {}

\* The status value reports the operation: the field is there and is not null
Reports(value, field) == field \in DOMAIN value /\ value[field] # Null

\* The merge-head marker is there and yields a short commit id
MergeActive(D) ==
    D.MERGE_HEAD # None /\ Slice(Trim(D.MERGE_HEAD[1]), 0, 7) # ""

\* A rebase-state directory is there and names a branch or a target commit
RebaseActive(D) ==
    \E dir \in {IF D.rebaseMerge # None THEN D.rebaseMerge ELSE D.rebaseApply} :
        /\ dir # None
        /\ \/ ReplaceFirst(Trim(ReadOrEmpty(dir[1].headName)), "refs/heads/", "") # ""
           \/ Slice(Trim(ReadOrEmpty(dir[1].onto)), 0, 7) # ""

\* C31: the status reports a merge in progress exactly when the merge-head marker exists
\* and yields a non-empty short commit id, a rebase in progress exactly when a
\* rebase-state directory exists and the branch name or the short id of the target is
\* not empty, and when neither is active mergeInProgress and rebaseInProgress are null.
C31_InProgressReported ==
    (result # Null /\ result.op = "status") =>
        LET value == result.value
            D == result.gitDirectory
        IN  /\ Reports(value, "mergeInProgress") <=> MergeActive(D)
            /\ Reports(value, "rebaseInProgress") <=> RebaseActive(D)
            /\ (~MergeActive(D) /\ ~RebaseActive(D)) =>
                    /\ "mergeInProgress" \in DOMAIN value /\ value.mergeInProgress = Null
                    /\ "rebaseInProgress" \in DOMAIN value /\ value.rebaseInProgress = Null

\* What a status value says of the operation in progress
InProgressOf(value) ==
    [ field \in DOMAIN value \cap {"mergeInProgress", "rebaseInProgress"} |-> value[field] ]

\* The ways a status is produced: by the adapter, by a `git status` that exits 0, by a
\* `git status` that exits with an error
StatusPaths3 ==
    { [adapter |-> "healthy", statusExit |-> 0], [adapter |-> "absent", statusExit |-> 0],
      [adapter |-> "absent", statusExit |-> 128] }

\* C32: for one repository state the status says the same of the operation in progress
\* whichever way it was produced: by the adapter, by the CLI with a status command that
\* succeeds, by the CLI with a status command that exits nonzero.
C32_InProgressOnEveryPath ==
    (result # Null /\ result.op = "status") =>
        \A path \in StatusPaths3 :
            InProgressOf(getGitStatusIn(FreshRepository, path.adapter, path.statusExit,
                                        result.gitDirectory, result.place))
                = InProgressOf(result.value)

\* C33: getGitBranches lists every remote branch under 'remotes/' followed by its name,
\* with and without the adapter, and under no other name, so that no key of the result
\* is both a local and a remote branch; and getAvailableBranchesForWorktree returns local branches only, none
\* of them the branch of a worktree.
C33_RemoteBranchesPrefixed ==
    /\ (result # Null /\ result.op = "branches") =>
            LET R == result.repository
                value == result.value
            IN  /\ \A r \in DOMAIN R.remoteBranches :
                        /\ "remotes/" \o r \in value.all
                        /\ "remotes/" \o r \in DOMAIN value.branches
                /\ \A r \in DOMAIN R.remoteBranches : r \notin value.all
    /\ (result # Null /\ result.op = "available") =>
            \A details \in result.value :
                /\ details.name \in DOMAIN result.repository.branches
                /\ \A wt \in result.listed : wt.branch # "refs/heads/" \o details.name

\* The sandboxes of a project record, none when there is no record
SandboxesOf(record) == IF record = Null THEN << >> ELSE record.sandboxes

\* C34: a createWorktree call that throws leaves nothing behind: the repository has the
\* worktrees it had, no local branch it did not have, and the sandboxes of the project
\* record are as they were.
C34_FailedCreateLeavesNothing ==
    (result # Null /\ result.op = "create" /\ result.err # "") =>
        /\ worktrees = result.before.worktrees
        /\ heads \subseteq result.before.heads
        /\ SandboxesOf(project) = SandboxesOf(result.before.project)

\* A call of SpecRegistry that has returned a worktree
ReturnedWorktree(p) ==
    /\ calls[p] # Null
    /\ calls[p].pc = "returned"
    /\ calls[p].outcome.err = ""

\* C35: when two concurrent createWorktree calls for different worktrees of the same
\* project have both succeeded, and their registry writes succeeded, the sandboxes list
\* of the project contains both new paths.
C35_NoLostUpdate ==
    \A p, q \in 1..MaxCalls :
        (/\ p # q
         /\ ReturnedWorktree(p)
         /\ ReturnedWorktree(q)
         /\ calls[p].outcome.value.path # calls[q].outcome.value.path)
            => /\ Listed(SandboxesOf(project), calls[p].outcome.value.path)
               /\ Listed(SandboxesOf(project), calls[q].outcome.value.path)

\* C37: execGit reports exitCode 0 only when the subprocess exited with status 0; a
\* subprocess that ended without an exit status (a signal ended it) is never reported
\* with exitCode 0, and runGitCommand never counts it a success.
C37_ZeroOnlyForExitZero ==
    (result # Null /\ result.op = "exec") =>
        /\ result.outcome.exitCode = 0 => result.proc.kind = "exit" /\ result.proc.code = 0
        /\ result.proc.kind = "signal" => result.outcome.exitCode # 0

\* The entries of a list
Entries(list) == {list[i] : i \in 1..Len(list)}

\* C36: after any series of createWorktree and removeWorktree calls whose registry writes
\* all succeed, the sandboxes list is exactly the set of the paths of the worktrees
\* created and not yet removed; and a removeWorktree call that removed the worktree at git
\* level, or found it already detached, leaves its path out of the list, also when the
\* deletion of the local branch fails and when the target is another spelling of the path.
C36_SandboxesAreLiveWorktrees ==
    /\ Entries(SandboxesOf(project)) = calls
    /\ (result # Null /\ result.op = "remove" /\ result.detached)
            => ~Listed(SandboxesOf(project), result.path)

\* What validateWorktreeCreate answers for the request of a createWorktree call, in the
\* repository as the call found it.
ValidationOf(call) == validateWorktreeCreate(call.before, call.directory, call.input)

\* C38: for the same directory, request and repository state, whenever
\* validateWorktreeCreate returns ok = true, its resolved.localBranch is the branch that
\* createWorktree returns for the request, in new mode and in existing mode.
C38_ValidationResolvesCreatedBranch ==
    (result # Null /\ result.op = "create" /\ result.err = "" /\ ValidationOf(result).ok)
        => ValidationOf(result).resolved.localBranch = result.value.branch

\* The directories a worktree named "demo" may get
StartDirectories ==
    { pathJoin(pathJoin(pathJoin(OpenCodeDataPath, "worktree"), ProjectId), name) :
        name \in resolveWorktreeNameCandidates("demo", 0) \cup resolveWorktreeNameCandidates("demo", 1) }

\* The task createWorktree scheduled for the directory, with a start command of the
\* request, is at pc
StartTaskAt(directory, pc) ==
    \E task \in timers :
        /\ task.directory = directory
        /\ Trim(task.startCommand) # ""
        /\ task.pc = pc

\* C39: after a successful createWorktree with a non-empty startCommand, the start command
\* of the request is eventually run in the directory of the new worktree, whether the
\* project has no start command, or has one that succeeds or fails.
C39_StartCommandEventuallyRuns ==
    \A directory \in StartDirectories :
        StartTaskAt(directory, "queued") ~> StartTaskAt(directory, "extra")

\* Only A-Z, a-z, 0-9, '.', '_' and '-', no hyphen at either end
NameShape(s) ==
    /\ \A i \in 0..(Len(s) - 1) : CharAt(s, i) \in SlugChars
    /\ ~StartsWith(s, "-")
    /\ ~(Len(s) > 0 /\ CharAt(s, Len(s) - 1) = "-")

\* C40: every worktree name createWorktree returns, the slug of the request or the slug
\* with "-<adjective>-<noun>" after it, has at most 80 characters and the slug format.
C40_ReturnedNameIsBoundedSlug ==
    (result # Null /\ result.op = "create" /\ result.err = "")
        => Len(result.value.name) <= SlugMaxLen /\ NameShape(result.value.name)

====
